---------------------------- MODULE Spec2Model ----------------------------
(***************************************************************************)
(* Tactical Feature & Probability Engine of tactic-scout.                  *)
(*                                                                         *)
(*   SpecFeatures   the per-play body of process_game_state                *)
(*                  (src/predict_model/src/process_data.py)                *)
(*   SpecPredictor  the life cycle of TacticalPredictor objects            *)
(*                  (src/predict_model/src/model_training.py)              *)
(*   SpecEnhancer   MLBTacticalAnalyzer._enhance_predictions               *)
(*                  (src/predict_model/src/predictor.py)                   *)
(*   SpecLabeler    calculate_tactical_probabilities (process_data.py)     *)
(*   SpecTable      process_game_state over a list of plays                *)
(*   SpecWeights    TacticalPredictor._calculate_custom_weights            *)
(*   SpecAdvisor    TacticalPredictor.analyze_situation                    *)
(*   SpecFetcher    PlayerStatsFetcher (stats_fetcher.py)                  *)
(*   SpecApi        concurrent /predict requests (api.py)                  *)
(*   SpecLive       analyze_live_game and _build_predictions               *)
(*                                                                         *)
(* Floating point quantities are kept as exact integers in a fixed unit,   *)
(* named at each definition (thousandths, 27ths, ...), except the          *)
(* pressure_index cells of the tables handed to the enhancer and to the    *)
(* situation analysis, which hold the double itself.  Python's None is the *)
(* empty tuple Nothing, a present value x is Some(x).                      *)
(***************************************************************************)
EXTENDS Integers, Sequences, FiniteSets, TLC

VARIABLES
    play,        \* features: the raw play handed to the loop body, or Nothing
    play_data,   \* features: what the loop body made of it
    pred,        \* predictor: name -> [model, feature_names]
    disk,        \* predictor: the artifact file, or Nothing
    writer,      \* predictor: the predictor state save_model wrote disk from
    ready,       \* predictor: the predictors a train or load_model succeeded on
    calls,       \* predictor: the train, save_model and load_model calls so far
    last,        \* predictor: the last call and how it ended
    enh,         \* enhancer: the last _enhance_predictions call
    lab,         \* labeler: the last calculate_tactical_probabilities call
    tbl,         \* extraction: the last process_game_state call
    wts,         \* weights: the last _calculate_custom_weights call
    fetch,       \* statistics: the PlayerStatsFetcher and its last lookup
    api          \* service: the /predict requests and the event loop

vars == <<play, play_data, pred, disk, writer, ready, calls, last, enh,
          lab, tbl, wts, fetch, api>>

(***************************************************************************)
(* Generic helpers                                                         *)
(***************************************************************************)
Nothing == <<>>
Some(x) == <<x>>
IsSome(o) == o /= Nothing
Get(o) == o[1]

Min(a, b) == IF a <= b THEN a ELSE b
Max(a, b) == IF a >= b THEN a ELSE b
Abs(a) == IF a >= 0 THEN a ELSE -a

Range(s) == {s[i] : i \in 1..Len(s)}
InSeq(x, s) == \E i \in 1..Len(s) : s[i] = x

\* floor(n / d) for d > 0 and any integer n.
FloorDiv(n, d) == n \div d

\* n/d rounded to the nearest integer, ties to the even one: rounding to
\* 2 decimals in exact arithmetic, for a value whose hundredths are n/d.
RoundHalfEven(n, d) ==
    LET q == FloorDiv(n, d)
        r == n - q * d
    IN  IF 2 * r < d THEN q
        ELSE IF 2 * r > d THEN q + 1
        ELSE IF q % 2 = 0 THEN q ELSE q + 1

(***************************************************************************)
(* Binary floating point (IEEE-754 double, round to nearest, ties to even) *)
(*                                                                         *)
(* The program's probabilities, rates and pressure indices are Python and  *)
(* numpy floats.  A double is [neg, mant, exp]: the value                  *)
(* (-1)^neg x mant x 2^exp, mant a natural number of exactly 53 bits kept  *)
(* as its base-2^14 digits, least significant first (<<>> is zero).  The   *)
(* values here stay far inside the normal range.  A fixed-point number of  *)
(* the model (hundredths, thousandths, 100000ths) stands for the double    *)
(* nearest to it, which is what float() of its decimal text gives.         *)
(***************************************************************************)
\* the digits of a significand are of 14 bits, so that a column of the
\* product of two significands (4 products of digits) stays below 2^31
LimbBits == 14
Limb == 2^LimbBits
Pow2 == [k \in 0..LimbBits |-> 2^k]
\* bits of the significand of a double
Precision == 53

LimbAt(a, i) == IF 1 <= i /\ i <= Len(a) THEN a[i] ELSE 0

RECURSIVE BigTrim(_)
BigTrim(a) ==
    IF a = <<>> \/ a[Len(a)] /= 0 THEN a ELSE BigTrim(SubSeq(a, 1, Len(a) - 1))

RECURSIVE BigAddFrom(_, _, _, _)
BigAddFrom(a, b, i, carry) ==
    IF i > Len(a) /\ i > Len(b) THEN (IF carry = 0 THEN <<>> ELSE <<carry>>)
    ELSE <<(LimbAt(a, i) + LimbAt(b, i) + carry) % Limb>>
            \o BigAddFrom(a, b, i + 1, (LimbAt(a, i) + LimbAt(b, i) + carry) \div Limb)

BigAdd(a, b) == BigAddFrom(a, b, 1, 0)

\* a - b for a >= b
RECURSIVE BigSubFrom(_, _, _, _)
BigSubFrom(a, b, i, borrow) ==
    IF i > Len(a) THEN <<>>
    ELSE <<(a[i] - LimbAt(b, i) - borrow) % Limb>>
            \o BigSubFrom(a, b, i + 1,
                          IF a[i] - LimbAt(b, i) - borrow < 0 THEN 1 ELSE 0)

BigSub(a, b) == BigTrim(BigSubFrom(a, b, 1, 0))

RECURSIVE BigLessFrom(_, _, _)
BigLessFrom(a, b, i) ==
    IF i = 0 THEN FALSE
    ELSE IF a[i] /= b[i] THEN a[i] < b[i]
    ELSE BigLessFrom(a, b, i - 1)

BigLess(a, b) ==
    IF Len(a) /= Len(b) THEN Len(a) < Len(b) ELSE BigLessFrom(a, b, Len(a))

\* a x k for 0 <= k <= Limb
RECURSIVE BigMulSmallFrom(_, _, _, _)
BigMulSmallFrom(a, k, i, carry) ==
    IF i > Len(a) THEN (IF carry = 0 THEN <<>> ELSE <<carry>>)
    ELSE <<(a[i] * k + carry) % Limb>>
            \o BigMulSmallFrom(a, k, i + 1, (a[i] * k + carry) \div Limb)

BigMulSmall(a, k) == IF k = 1 THEN a ELSE BigTrim(BigMulSmallFrom(a, k, 1, 0))

\* the sum of the products of digits that make column k of a x b, for a of
\* at most 4 digits
ColumnSum(a, b, k) ==
    LimbAt(a, 1) * LimbAt(b, k) + LimbAt(a, 2) * LimbAt(b, k - 1)
        + LimbAt(a, 3) * LimbAt(b, k - 2) + LimbAt(a, 4) * LimbAt(b, k - 3)

RECURSIVE BigMulFrom(_, _, _, _)
BigMulFrom(a, b, k, s) ==
    IF k > Len(a) + Len(b) THEN <<>>
    ELSE <<s % Limb>> \o BigMulFrom(a, b, k + 1, s \div Limb + ColumnSum(a, b, k + 1))

\* a x b for two significands
BigMul(a, b) == BigTrim(BigMulFrom(a, b, 1, ColumnSum(a, b, 1)))

\* quotient and remainder of a by d, 0 < d <= Limb
RECURSIVE BigDivSmallFrom(_, _, _, _, _)
BigDivSmallFrom(a, d, i, rem, q) ==
    IF i = 0 THEN [q |-> BigTrim(q), r |-> rem]
    ELSE BigDivSmallFrom(a, d, i - 1, (rem * Limb + a[i]) % d,
                         <<(rem * Limb + a[i]) \div d>> \o q)

BigDivSmall(a, d) == BigDivSmallFrom(a, d, Len(a), 0, <<>>)

BigFromNat(n) == BigTrim(<<n % Limb, (n \div Limb) % Limb, n \div (Limb * Limb)>>)

\* the natural number below 2^28 that a stands for
BigToNat(a) == LimbAt(a, 1) + Limb * LimbAt(a, 2)

\* the number of bits of a digit x > 0
DigitBits(x) ==
    IF x < 128
        THEN (IF x < 8 THEN (IF x < 2 THEN 1 ELSE IF x < 4 THEN 2 ELSE 3)
              ELSE IF x < 16 THEN 4 ELSE IF x < 32 THEN 5
              ELSE IF x < 64 THEN 6 ELSE 7)
        ELSE (IF x < 1024 THEN (IF x < 256 THEN 8 ELSE IF x < 512 THEN 9 ELSE 10)
              ELSE IF x < 2048 THEN 11 ELSE IF x < 4096 THEN 12
              ELSE IF x < 8192 THEN 13 ELSE 14)

BitLength(a) ==
    IF a = <<>> THEN 0 ELSE LimbBits * (Len(a) - 1) + DigitBits(a[Len(a)])

\* a x 2^k
BigShiftLeft(a, k) ==
    IF a = <<>> \/ k = 0 THEN a
    ELSE [i \in 1..(k \div LimbBits) |-> 0] \o BigMulSmall(a, Pow2[k % LimbBits])

ShiftResult(o, lost) == [q |-> o.q, sticky |-> o.r /= 0 \/ lost]

\* floor(a / 2^k), and whether a bit was shifted out
BigShiftRight(a, k) ==
    ShiftResult(BigDivSmall(SubSeq(a, Min(k \div LimbBits, Len(a)) + 1, Len(a)),
                            Pow2[k % LimbBits]),
                \E i \in 1..Min(k \div LimbBits, Len(a)) : a[i] /= 0)

BigHalf(a) == BigDivSmall(a, 2).q

\* q + 1 when the bit behind q is set and what follows it is not zero or q
\* is odd, else q
RoundedUp(q, guard, sticky) ==
    IF guard /\ (sticky \/ LimbAt(q, 1) % 2 = 1) THEN BigAdd(q, <<1>>) ELSE q

RoundGuarded(s, sticky) ==
    RoundedUp(BigHalf(s.q), LimbAt(s.q, 1) % 2 = 1, s.sticky \/ sticky)

\* a / 2^k rounded to the nearest integer, ties to even; sticky tells that
\* a itself was truncated
BigRoundShift(a, k, sticky) ==
    IF k = 0 THEN a ELSE RoundGuarded(BigShiftRight(a, k - 1), sticky)

FloatZero == [neg |-> FALSE, mant |-> <<>>, exp |-> 0]

\* r x 2^e for r of 53 bits, or of 54 when the rounding carried
Normalized(neg, r, e) ==
    IF BitLength(r) > Precision
        THEN [neg |-> neg, mant |-> BigHalf(r), exp |-> e + 1]
        ELSE [neg |-> neg, mant |-> r, exp |-> e]

RoundSized(neg, m, e, sticky, len) ==
    IF len = 0 THEN FloatZero
    ELSE IF len <= Precision
        THEN [neg |-> neg, mant |-> BigShiftLeft(m, Precision - len),
              exp |-> e - (Precision - len)]
    ELSE Normalized(neg, BigRoundShift(m, len - Precision, sticky),
                    e + len - Precision)

\* the double nearest to (-1)^neg x m x 2^e (sticky: m was truncated, and
\* then has more than 53 bits)
RoundToDouble(neg, m, e, sticky) == RoundSized(neg, m, e, sticky, BitLength(m))

\* float(n) of an integer below 2^30 in magnitude
FloatOfInt(n) == RoundToDouble(n < 0, BigFromNat(Abs(n)), 0, FALSE)

FloatNeg(x) == IF x.mant = <<>> THEN x ELSE [x EXCEPT !.neg = ~ x.neg]
FloatAbs(x) == [x EXCEPT !.neg = FALSE]

\* x * y
FloatMul(x, y) ==
    IF x.mant = <<>> \/ y.mant = <<>> THEN FloatZero
    ELSE RoundToDouble(x.neg /= y.neg, BigMul(x.mant, y.mant), x.exp + y.exp, FALSE)

DivRounded(neg, o, e) == RoundToDouble(neg, o.q, e, o.r /= 0)

\* x / d for an integer 0 < d <= 2^14
FloatDivInt(x, d) ==
    DivRounded(x.neg, BigDivSmall(BigShiftLeft(x.mant, 2 * LimbBits), d),
               x.exp - 2 * LimbBits)

AddAligned(xneg, a, yneg, b, e) ==
    IF xneg = yneg THEN RoundToDouble(xneg, BigAdd(a, b), e, FALSE)
    ELSE IF BigLess(a, b) THEN RoundToDouble(yneg, BigSub(b, a), e, FALSE)
    ELSE RoundToDouble(xneg, BigSub(a, b), e, FALSE)

\* x + y
FloatAdd(x, y) ==
    IF x.mant = <<>> THEN y
    ELSE IF y.mant = <<>> THEN x
    ELSE AddAligned(x.neg, BigShiftLeft(x.mant, x.exp - Min(x.exp, y.exp)),
                    y.neg, BigShiftLeft(y.mant, y.exp - Min(x.exp, y.exp)),
                    Min(x.exp, y.exp))

\* x - y
FloatSub(x, y) == FloatAdd(x, FloatNeg(y))

\* -1, 0 or 1
FloatSign(x) == IF x.mant = <<>> THEN 0 ELSE IF x.neg THEN -1 ELSE 1

\* |x| < |y| for x and y not zero
MagnitudeLess(x, y) ==
    x.exp < y.exp \/ (x.exp = y.exp /\ BigLess(x.mant, y.mant))

\* x < y
FloatLess(x, y) ==
    IF FloatSign(x) /= FloatSign(y) THEN FloatSign(x) < FloatSign(y)
    ELSE IF FloatSign(x) = 0 THEN FALSE
    ELSE IF FloatSign(x) = 1 THEN MagnitudeLess(x, y)
    ELSE MagnitudeLess(y, x)

\* the largest k with 2^k dividing d
RECURSIVE TwoAdic(_)
TwoAdic(d) == IF d % 2 = 0 THEN 1 + TwoAdic(d \div 2) ELSE 0

RatioRounded(n, d, k) ==
    DivRounded(n < 0,
               BigDivSmall(BigShiftLeft(BigFromNat(Abs(n)), 5 * LimbBits),
                           d \div Pow2[k]),
               - 5 * LimbBits - k)

\* n / d as the division of two integers gives it, which is also the double
\* nearest to the fraction n/d (|n| < 2^30, d > 0 with an odd part of at
\* most 2^14)
FloatRatio(n, d) == RatioRounded(n, d, TwoAdic(d))

\* the integer nearest to x * scale in exact arithmetic, ties to even
RoundExact(x, scale) ==
    (IF x.neg THEN -1 ELSE 1)
        * BigToNat(IF x.exp >= 0
                    THEN BigShiftLeft(BigMulSmall(x.mant, scale), x.exp)
                    ELSE BigRoundShift(BigMulSmall(x.mant, scale), -x.exp, FALSE))

\* Python's round(x, 2) of a float, in hundredths: the decimal nearest to
\* the value the double has
PyRound2(x) == RoundExact(x, 100)

Float100 == FloatOfInt(100)

\* numpy's round(x, 2) of a float64, rint(x * 100) / 100, in hundredths
NumpyRound2(x) == RoundExact(FloatMul(x, Float100), 1)

RECURSIVE SeqSum(_)
SeqSum(s) == IF s = <<>> THEN 0 ELSE s[1] + SeqSum(Tail(s))

RECURSIVE SelectSeqBy(_, _)
\* the subsequence of s whose elements are in the set keep
SelectSeqBy(s, keep) ==
    IF s = <<>> THEN <<>>
    ELSE IF s[1] \in keep THEN <<s[1]>> \o SelectSeqBy(Tail(s), keep)
    ELSE SelectSeqBy(Tail(s), keep)


(***************************************************************************)
(* The static taxonomy (constants.py)                                      *)
(***************************************************************************)
\* Categories in the insertion order of TACTICAL_CATEGORIES.
CategoryOrder == <<"OFFENSIVE", "BASERUNNING", "DEFENSIVE">>

\* category -> its tactics, in insertion order.
TACTICAL_CATEGORIES ==
    [OFFENSIVE   |-> <<"power_hitting", "contact_hitting", "small_ball",
                       "patient_hitting">>,
     BASERUNNING |-> <<"aggressive_baserunning", "conservative_baserunning">>,
     DEFENSIVE   |-> <<"defensive_outs", "strikeout_pitching", "double_play",
                       "field_defense">>]

\* A context clause [key, th, th2]: th is the threshold in the unit of the
\* field the labeler compares it with (pressure in thousandths, offensive
\* opportunity in 6ths, defensive pressure in 3000ths, True as 1);
\* score_diff_range is the pair (th, th2).
Ctx(k, a) == [key |-> k, th |-> a, th2 |-> a]
CtxRange(k, a, b) == [key |-> k, th |-> a, th2 |-> b]

\* tactic -> [actions, contexts], both in source order.
TacticData ==
    [power_hitting |->
        [actions  |-> <<"Home Run", "Double", "Triple">>,
         contexts |-> <<Ctx("min_runners", 1), Ctx("scoring_position", 1),
                        Ctx("min_pressure", 1500)>>],
     contact_hitting |->
        [actions  |-> <<"Single", "Ground Ball">>,
         contexts |-> <<Ctx("max_pressure", 1500), Ctx("max_outs", 2)>>],
     small_ball |->
        [actions  |-> <<"Sac Bunt", "Sac Fly", "Bunt Groundout">>,
         contexts |-> <<CtxRange("score_diff_range", -2, 2), Ctx("max_outs", 1)>>],
     patient_hitting |->
        [actions  |-> <<"Walk", "Hit By Pitch", "Intent Walk">>,
         contexts |-> <<Ctx("min_balls", 2), Ctx("max_strikes", 1)>>],
     aggressive_baserunning |->
        [actions  |-> <<"Stolen Base 2B", "Stolen Base 3B", "Stolen Base Home",
                        "Triple">>,
         contexts |-> <<Ctx("max_outs", 1), Ctx("min_offensive_opportunity", 6)>>],
     conservative_baserunning |->
        [actions  |-> <<"Pickoff", "Caught Stealing", "Pickoff Caught Stealing">>,
         contexts |-> <<Ctx("min_pressure", 1500)>>],
     defensive_outs |->
        [actions  |-> <<"Groundout", "Flyout", "Lineout", "Pop Out", "Forceout">>,
         contexts |-> <<Ctx("min_defensive_pressure", 3000)>>],
     strikeout_pitching |->
        [actions  |-> <<"Strikeout", "Strikeout Double Play">>,
         contexts |-> <<Ctx("min_strikes", 2)>>],
     double_play |->
        [actions  |-> <<"Double Play", "Grounded Into DP", "Triple Play">>,
         contexts |-> <<Ctx("min_runners", 1), Ctx("max_outs", 2)>>],
     field_defense |->
        [actions  |-> <<"Field Error", "Pickoff", "Caught Stealing">>,
         contexts |-> <<Ctx("min_defensive_pressure", 4500)>>]]

\* All tactics in taxonomy insertion order (category by category).
TacticOrder ==
    TACTICAL_CATEGORIES["OFFENSIVE"] \o TACTICAL_CATEGORIES["BASERUNNING"]
        \o TACTICAL_CATEGORIES["DEFENSIVE"]

Tactics == Range(TacticOrder)

\* HIGH_LEVERAGE_THRESHOLDS
LateInnings == 7
CloseScore == 2
HighPressure == 1500     \* 1.5, in thousandths

RECURSIVE TacticsForAction(_, _)
\* The entries ACTION_TO_TACTIC[action] gets while the module is imported:
\* one per tactic that lists the action, in taxonomy order.
TacticsForAction(action, tactics) ==
    IF tactics = <<>> THEN <<>>
    ELSE (IF InSeq(action, TacticData[tactics[1]].actions)
            THEN <<[tactic |-> tactics[1],
                    contexts |-> TacticData[tactics[1]].contexts]>>
            ELSE <<>>)
         \o TacticsForAction(action, Tail(tactics))

ACTION_TO_TACTIC(action) == TacticsForAction(action, TacticOrder)

RECURSIVE ActionsOf(_)
ActionsOf(tactics) ==
    IF tactics = <<>> THEN <<>>
    ELSE TacticData[tactics[1]].actions \o ActionsOf(Tail(tactics))

\* VALID_EVENTS: hitting + baserunning + fielding, as process_game_state
\* concatenates them.
VALID_EVENTS ==
    ActionsOf(TACTICAL_CATEGORIES["OFFENSIVE"])
        \o ActionsOf(TACTICAL_CATEGORIES["BASERUNNING"])
        \o ActionsOf(TACTICAL_CATEGORIES["DEFENSIVE"])

(***************************************************************************)
(* Situational feature extractor (process_data.py)                         *)
(***************************************************************************)
\* process_runners_flat: runners is the list of movements [start, end].
process_runners_flat(runners) ==
    [num_runners      |-> Len(runners),
     scoring_position |->
        IF \E i \in 1..Len(runners) : runners[i].start \in {"2B", "3B"}
            THEN 1 ELSE 0,
     runs_scored      |->
        Cardinality({i \in 1..Len(runners) : runners[i].end = "score"}),
     runner_on_first  |->
        IF \E i \in 1..Len(runners) : runners[i].start = "1B" THEN 1 ELSE 0,
     runner_on_second |->
        IF \E i \in 1..Len(runners) : runners[i].start = "2B" THEN 1 ELSE 0,
     runner_on_third  |->
        IF \E i \in 1..Len(runners) : runners[i].start = "3B" THEN 1 ELSE 0]

\* pressure before the cap, in thousandths: 1.0 x 1.5 (late inning)
\* x (1 + 0.2 outs) x 1.3 (scoring position).
RawPressure(inning, outs, scoring_position) ==
    (1000 * (IF inning >= LateInnings THEN 15 ELSE 10) * (10 + 2 * outs)
          * (IF scoring_position = 1 THEN 13 ELSE 10)) \div 1000

\* Mutant of PressureIndex: the cap at 2.0 is forgotten.
PressureIndexNoCap(inning, outs, scoring_position) ==
    RawPressure(inning, outs, scoring_position)

\* metrics["pressure_index"] = min(pressure, 2.0), in thousandths.
PressureIndex(inning, outs, scoring_position) ==
    Min(RawPressure(inning, outs, scoring_position), 2000)

\* metrics["pressure_index"] as the double the statements of lines 138-144
\* leave in it: 1.0, *= 1.5, *= (1 + outs * 0.2), *= 1.3, min(pressure, 2.0).
\* It is not always the double nearest to the decimal product: 1.5 x 1.2 is
\* 1.7999999999999998.
PressureFloat(inning, outs, scoring_position) ==
    LET late == IF inning >= LateInnings
                    THEN FloatMul(FloatOfInt(1), FloatRatio(15, 10))
                    ELSE FloatOfInt(1)
        by_outs == FloatMul(late,
                            FloatAdd(FloatOfInt(1),
                                     FloatMul(FloatOfInt(outs), FloatRatio(2, 10))))
        pressure == IF scoring_position /= 0
                        THEN FloatMul(by_outs, FloatRatio(13, 10))
                        ELSE by_outs
    IN  IF FloatLess(FloatOfInt(2), pressure) THEN FloatOfInt(2) ELSE pressure

\* metrics["game_stage"] = (min(inning, 9) - 1 + outs/3) / 9, in 27ths.
GameStage(inning, outs) == 3 * (Min(inning, 9) - 1) + outs

\* metrics["leverage_index"], in thousandths: pressure_index x 2.0 (close
\* game) x 1.5 (game_stage > 0.7), capped at 3.0.
LeverageIndex(pressure_index, is_close_game, game_stage) ==
    Min((pressure_index * (IF is_close_game = 1 THEN 20 ELSE 10)
            * (IF 10 * game_stage > 189 THEN 15 ELSE 10)) \div 100,
        3000)

\* calculate_advanced_metrics(play_data).  Units: pressure_index and
\* leverage_index thousandths, game_stage 27ths, run_expectancy 30ths,
\* win_probability_added 50400ths, offensive_opportunity 6ths,
\* defensive_pressure 3000ths, count_leverage 12ths, scoring_threat 6000ths.
calculate_advanced_metrics(pd) ==
    LET pressure_index == PressureIndex(pd.inning, pd.outs, pd.scoring_position)
        game_stage == GameStage(pd.inning, pd.outs)
        offensive_opportunity ==
            pd.num_runners * (IF pd.scoring_position = 1 THEN 3 ELSE 2)
                * (3 - pd.outs)
        remaining_innings == Max(10 - pd.inning, 1)
    IN  [pressure_index |-> pressure_index,
         game_stage     |-> game_stage,
         run_expectancy |->
            pd.num_runners * (IF pd.scoring_position = 1 THEN 5 ELSE 3)
                * (3 - pd.outs),
         leverage_index |->
            LeverageIndex(pressure_index, pd.is_close_game, game_stage),
         win_probability_added |->
            IF pd.inning >= 10
                THEN 25200 + pd.score_diff * 2520
                ELSE 25200 + pd.score_diff * (5040 \div remaining_innings),
         offensive_opportunity |-> offensive_opportunity,
         defensive_pressure |->
            pd.num_runners * pressure_index * (pd.outs + 1),
         count_leverage |-> pd.balls * (3 - pd.strikes),
         scoring_threat |->
            offensive_opportunity * pressure_index
                * (IF pd.is_close_game = 1 THEN 2 ELSE 1)]

(***************************************************************************)
(* Heuristic tactic labeler (process_data.py)                              *)
(***************************************************************************)
\* One clause of the if/elif chain over a tactic's contexts: a clause
\* counts when its own key's comparison holds; a key the chain does not
\* know (min_strikes) never counts.
ContextMatches(c, pd) ==
    CASE c.key = "min_runners"      -> pd.num_runners >= c.th
      [] c.key = "max_outs"         -> pd.outs <= c.th
      [] c.key = "scoring_position" -> pd.scoring_position = c.th
      [] c.key = "min_pressure"     -> pd.pressure_index >= c.th
      [] c.key = "max_pressure"     -> pd.pressure_index <= c.th
      [] c.key = "score_diff_range" ->
            c.th <= pd.score_diff /\ pd.score_diff <= c.th2
      [] c.key = "min_balls"        -> pd.balls >= c.th
      [] c.key = "max_strikes"      -> pd.strikes <= c.th
      [] c.key = "min_offensive_opportunity" ->
            pd.offensive_opportunity >= c.th
      [] c.key = "min_defensive_pressure" ->
            pd.defensive_pressure >= c.th
      [] OTHER -> FALSE

ContextMatchCount(contexts, pd) ==
    Cardinality({i \in 1..Len(contexts) : ContextMatches(contexts[i], pd)})

\* Scores are in 600000ths (6 for the 1, 2 or 3 clauses of a tactic, then the
\* denominators of the multipliers), so that every product below is an
\* integer.
ProbUnit == 6 * 100000

\* Mutant of ContextScore: the base probability of 0.4 is left out and the
\* score is the context share of 0.6 alone.
ContextScoreNoBase(contexts, pd) ==
    LET total == Len(contexts)
    IN  IF total = 0 THEN 0
        ELSE (6 * ContextMatchCount(contexts, pd) * (ProbUnit \div 10))
                \div total

\* prob after `prob += context_score * 0.6` (process_data.py 217-248): 0.4
\* plus 0.6 times the share of the clauses counted.
ContextScore(contexts, pd) ==
    LET total == Len(contexts)
        base == 4 * (ProbUnit \div 10)
    IN  IF total = 0 THEN base
        ELSE ((4 * total + 6 * ContextMatchCount(contexts, pd))
                * (ProbUnit \div 10)) \div total

\* The high-leverage multiplier (process_data.py 250-255).
HighLeverageProb(tactic, scored, pd) ==
    IF pd.pressure_index >= HighPressure
        THEN IF tactic \in {"power_hitting", "patient_hitting"}
                THEN (scored * 12) \div 10
             ELSE IF tactic \in {"contact_hitting", "defensive_outs"}
                THEN (scored * 11) \div 10
             ELSE scored
        ELSE scored

\* prob after the context score and the high-leverage multiplier
\* (process_data.py 217-255).
ContextProb(tactic, contexts, pd) ==
    IF Len(contexts) = 0 THEN ContextScore(contexts, pd)
    ELSE HighLeverageProb(tactic, ContextScore(contexts, pd), pd)

\* The player-quality multipliers (process_data.py 257-279); stats values
\* are in thousandths, matchup_abs is a count.
StatsProb(tactic, prob, pd) ==
    IF ~ (20 * prob >= ProbUnit) THEN prob
    ELSE IF ~ IsSome(pd.stats) THEN prob
    ELSE
        LET st == Get(pd.stats)
            afterBatter ==
                IF tactic = "power_hitting" /\ st.batter_ops > 800
                    THEN (prob * 12) \div 10
                ELSE IF tactic = "contact_hitting" /\ st.batter_avg > 300
                    THEN (prob * 11) \div 10
                ELSE prob
            afterPitcher ==
                IF tactic = "strikeout_pitching" /\ st.pitcher_k_rate > 9000
                    THEN (afterBatter * 12) \div 10
                ELSE IF tactic = "defensive_outs" /\ st.pitcher_gb_rate > 1500
                    THEN (afterBatter * 11) \div 10
                ELSE afterBatter
        IN  IF st.matchup_abs > 10
                THEN IF st.matchup_ops > 800
                        THEN IF tactic \in {"power_hitting", "contact_hitting"}
                                THEN (afterPitcher * 115) \div 100
                                ELSE afterPitcher
                     ELSE IF st.matchup_ops < 600
                        THEN IF tactic \in {"defensive_outs", "strikeout_pitching"}
                                THEN (afterPitcher * 115) \div 100
                                ELSE afterPitcher
                     ELSE afterPitcher
                ELSE afterPitcher

RECURSIVE CandidateProbs(_, _)
\* probabilities, as the ordered list of [tactic, prob] the loop over
\* possible_tactics fills in.
CandidateProbs(possible, pd) ==
    IF possible = <<>> THEN <<>>
    ELSE <<[tactic |-> possible[1].tactic,
            prob   |-> StatsProb(possible[1].tactic,
                                 ContextProb(possible[1].tactic,
                                             possible[1].contexts, pd),
                                 pd)]>>
         \o CandidateProbs(Tail(possible), pd)

\* Mutant of ArgMaxFirst: among equal scores the last entry wins.
ArgMaxLast(probs) ==
    LET best == CHOOSE i \in 1..Len(probs) :
                    /\ \A j \in 1..Len(probs) : probs[j].prob <= probs[i].prob
                    /\ \A j \in (i + 1)..Len(probs) : probs[j].prob < probs[i].prob
    IN  probs[best].tactic

\* max(probabilities.items(), key=prob)[0]: the first entry holding the
\* largest score.
ArgMaxFirst(probs) ==
    LET best == CHOOSE i \in 1..Len(probs) :
                    /\ \A j \in 1..Len(probs) : probs[j].prob <= probs[i].prob
                    /\ \A j \in 1..(i - 1) : probs[j].prob < probs[i].prob
    IN  probs[best].tactic

\* Mutant of calculate_tactical_probabilities: the fallback for an action
\* outside the taxonomy is given as the fraction 1.0, not as 100.0.
calculate_tactical_probabilities_unit_fallback(pd) ==
    LET possible == ACTION_TO_TACTIC(pd.result)
        fallback == <<[tactic |-> "contact_hitting", prob |-> ProbUnit]>>
    IN  IF possible = <<>>
            THEN [probabilities |-> fallback, primary_tactic |-> "contact_hitting"]
        ELSE LET probs == CandidateProbs(possible, pd)
                 filled == IF probs = <<>> THEN fallback ELSE probs
             IN  [probabilities |-> filled, primary_tactic |-> ArgMaxFirst(filled)]

\* calculate_tactical_probabilities(play_data)
calculate_tactical_probabilities(pd) ==
    LET possible == ACTION_TO_TACTIC(pd.result)
        fallback == <<[tactic |-> "contact_hitting", prob |-> 100 * ProbUnit]>>
    IN  IF possible = <<>>
            THEN [probabilities |-> fallback, primary_tactic |-> "contact_hitting"]
        ELSE LET probs == CandidateProbs(possible, pd)
                 filled == IF probs = <<>> THEN fallback ELSE probs
             IN  [probabilities |-> filled, primary_tactic |-> ArgMaxFirst(filled)]

(***************************************************************************)
(* The body of process_game_state's loop over the plays                    *)
(***************************************************************************)
\* play_data as built up to the call of calculate_advanced_metrics
\* (process_data.py 21-88).  p.stats is Some(statistics) when a stats
\* fetcher and both player ids are given, Nothing otherwise.
BasePlayData(p) ==
    LET r == process_runners_flat(p.runners)
        score_diff == p.away - p.home
    IN  [inning |-> p.inning, half_inning |-> p.halfInning,
         result |-> p.event, outs |-> p.outs, balls |-> p.balls,
         strikes |-> p.strikes, score_home |-> p.home,
         score_away |-> p.away, stats |-> p.stats,
         score_diff |-> score_diff,
         is_close_game |-> IF Abs(score_diff) <= CloseScore THEN 1 ELSE 0,
         num_runners |-> r.num_runners,
         scoring_position |-> r.scoring_position,
         runs_scored |-> r.runs_scored,
         runner_on_first |-> r.runner_on_first,
         runner_on_second |-> r.runner_on_second,
         runner_on_third |-> r.runner_on_third]

\* play_data.update(calculate_advanced_metrics(play_data))
WithMetrics(pd) ==
    LET m == calculate_advanced_metrics(pd)
    IN  [f \in (DOMAIN pd) \cup (DOMAIN m) |->
            IF f \in DOMAIN m THEN m[f] ELSE pd[f]]

\* Mutant of LoopBody: the test of the result against VALID_EVENTS is left
\* out and every play is labelled and appended.
LoopBodyUnfiltered(p) ==
    LET pd == WithMetrics(BasePlayData(p))
        t == calculate_tactical_probabilities(pd)
    IN  [emitted |-> TRUE, row |-> pd,
         primary_tactic |-> t.primary_tactic,
         probabilities |-> t.probabilities]

\* One iteration (process_data.py 19-103): the record, whether it is
\* appended to `processed` (emitted) or skipped by `continue`, and the
\* label and prob_* columns of an emitted record.
LoopBody(p) ==
    LET pd == WithMetrics(BasePlayData(p))
    IN  IF InSeq(pd.result, VALID_EVENTS)
            THEN LET t == calculate_tactical_probabilities(pd)
                 IN  [emitted |-> TRUE, row |-> pd,
                      primary_tactic |-> t.primary_tactic,
                      probabilities |-> t.probabilities]
            ELSE [emitted |-> FALSE, row |-> pd,
                  primary_tactic |-> "", probabilities |-> <<>>]

(***************************************************************************)
(* SpecFeatures: Init draws one raw play, ProcessPlay runs the loop body   *)
(***************************************************************************)
MaxRunners == 2
MaxScore == 3

Innings == {1, 6, 7, 9, 12}
OutsRange == 0..3
Bases == {"1B", "2B", "3B"}
Movements == {[start |-> "1B", end |-> "2B"], [start |-> "2B", end |-> "score"],
              [start |-> "3B", end |-> "score"]}
RunnerLists ==
    {<<>>} \cup {<<m>> : m \in Movements}
        \cup (IF MaxRunners >= 2
                THEN {<<[start |-> "1B", end |-> "3B"], m>> : m \in Movements}
                ELSE {})
        \cup (IF MaxRunners >= 3
                THEN {<<[start |-> "1B", end |-> "2B"],
                        [start |-> "2B", end |-> "3B"],
                        [start |-> "3B", end |-> "score"]>>}
                ELSE {})
Counts == {[balls |-> 0, strikes |-> 0], [balls |-> 3, strikes |-> 2]}
Events == {"Home Run", "Single", "Triple", "Strikeout", "Unknown Event"}
StatsPool ==
    {Nothing,
     Some([batter_avg |-> 310, batter_ops |-> 900, pitcher_k_rate |-> 250,
           pitcher_gb_rate |-> 500, matchup_ops |-> 0, matchup_abs |-> 0])}

RawPlays ==
    {[inning |-> i, halfInning |-> "top", event |-> e, outs |-> o,
      balls |-> c.balls, strikes |-> c.strikes, home |-> h, away |-> a,
      runners |-> r, stats |-> s] :
        i \in Innings, e \in Events, o \in OutsRange, c \in Counts,
        h \in {0, MaxScore}, a \in {0, 1}, r \in RunnerLists, s \in StatsPool}

NoCall ==
    [op |-> "none", who |-> "", err |-> "", pre |-> Nothing,
     input |-> Nothing, output |-> Nothing]

PredictorIdle ==
    /\ pred = [n \in {"P", "Q"} |-> [model |-> Nothing, feature_names |-> Nothing]]
    /\ disk = Nothing
    /\ writer = Nothing
    /\ ready = {}
    /\ calls = 0
    /\ last = NoCall

EnhancerIdle == enh = Nothing

LabelerIdle == lab = Nothing

TableIdle == tbl = Nothing

WeightsIdle == wts = Nothing

FetcherIdle == fetch = Nothing

ApiIdle == api = Nothing

FeaturesIdle == play = Nothing /\ play_data = Nothing

InitFeatures ==
    /\ play \in {Some(p) : p \in RawPlays}
    /\ play_data = Nothing
    /\ PredictorIdle
    /\ FetcherIdle /\ ApiIdle
    /\ EnhancerIdle
    /\ LabelerIdle /\ TableIdle /\ WeightsIdle

ProcessPlay ==
    /\ IsSome(play)
    /\ play_data = Nothing
    /\ play_data' = Some(LoopBody(Get(play)))
    /\ UNCHANGED <<play, pred, disk, writer, ready, calls, last, enh, lab, tbl, wts, fetch, api>>

NextFeatures == ProcessPlay

SpecFeatures == InitFeatures /\ [][NextFeatures]_vars

\* C1: every Situation Record built from a play with inning >= 1 and outs
\* in 0..3 has 0 <= pressure_index <= 2, 0 <= leverage_index <= 3 and
\* 0 <= game_stage <= 1 (thousandths, thousandths, 27ths).
C1_MetricsInRange ==
    (IsSome(play_data) /\ Get(play).inning >= 1 /\ Get(play).outs \in 0..3) =>
        LET r == Get(play_data).row
        IN  /\ 0 <= r.pressure_index /\ r.pressure_index <= 2000
            /\ 0 <= r.leverage_index /\ r.leverage_index <= 3000
            /\ 0 <= r.game_stage /\ r.game_stage <= 27

\* A late play with two outs and a runner in scoring position in a close
\* game: the uncapped pressure is 2.73 and the uncapped leverage 8.19.
C1_Witness ==
    /\ IsSome(play_data)
    /\ Get(play).inning = 9 /\ Get(play).outs = 3
    /\ Get(play_data).row.scoring_position = 1
    /\ Get(play_data).row.is_close_game = 1
    /\ Get(play_data).row.pressure_index = 2000
    /\ Get(play_data).row.leverage_index = 3000
    /\ Get(play_data).row.game_stage = 27

(***************************************************************************)
(* Tactical classifier: feature preparation (model_training.py 28-95)      *)
(*                                                                         *)
(* A table is [cols, rows]: the ordered column names and, per row, a       *)
(* function from the columns to values.  The columns are those             *)
(* process_game_state emits: numeric ones, the categorical half_inning     *)
(* and result, the label and the identifier and prob_* columns.            *)
(***************************************************************************)
\* the columns col.startswith('prob_') selects
ProbColumnNames ==
    {"prob_power_hitting", "prob_contact_hitting", "prob_small_ball",
     "prob_patient_hitting", "prob_aggressive_baserunning",
     "prob_conservative_baserunning", "prob_defensive_outs",
     "prob_strikeout_pitching", "prob_double_play", "prob_field_defense"}

\* columns_to_drop
ColumnsToDrop ==
    {"description", "tactical_probabilities", "primary_tactic",
     "batting_team", "count", "pitcher_id", "batter_id"}

\* pd.get_dummies names the indicator columns prefix_value and emits them
\* in the sorted order of the values present.
HalfOrder == <<"bottom", "top">>
HalfDummy == ("bottom" :> "half_inning_bottom") @@ ("top" :> "half_inning_top")
ResultOrder == <<"Home Run", "Single", "Walk">>
ResultDummy ==
    ("Home Run" :> "result_Home Run") @@ ("Single" :> "result_Single")
        @@ ("Walk" :> "result_Walk")

DropColumns(t, drop) ==
    LET cols == SelectSeqBy(t.cols, Range(t.cols) \ drop)
    IN  [cols |-> cols,
         rows |-> [i \in 1..Len(t.rows) |-> [c \in Range(cols) |-> t.rows[i][c]]]]

\* pd.get_dummies(features, columns=[col]): col leaves its place, the
\* indicator columns are appended.
GetDummies(t, col, order, nameOf) ==
    IF ~ InSeq(col, t.cols) THEN t
    ELSE
        LET present == {t.rows[i][col] : i \in 1..Len(t.rows)}
            vals == SelectSeqBy(order, present)
            kept == SelectSeqBy(t.cols, Range(t.cols) \ {col})
            cols == kept \o [i \in 1..Len(vals) |-> nameOf[vals[i]]]
        IN  [cols |-> cols,
             rows |-> [i \in 1..Len(t.rows) |->
                        [c \in Range(cols) |->
                            IF InSeq(c, kept) THEN t.rows[i][c]
                            ELSE IF nameOf[t.rows[i][col]] = c THEN 1 ELSE 0]]]

\* model_training.py 73-78: with a stored schema, every stored column the
\* table lacks is added as 0 and the table is re-indexed by the stored
\* list.
Reconcile(feature_names, t) ==
    IF ~ IsSome(feature_names) THEN t
    ELSE
        LET names == Get(feature_names)
        IN  [cols |-> names,
             rows |-> [i \in 1..Len(t.rows) |->
                        [c \in Range(names) |->
                            IF InSeq(c, t.cols) THEN t.rows[i][c] ELSE 0]]]

\* prepare_features(game_data) of a predictor whose stored schema is
\* feature_names.  The numeric conversions (bool to int, to_numeric,
\* inf to 0) leave the integer columns of these tables as they are.
prepare_features(feature_names, game_data) ==
    LET noProb == DropColumns(game_data, ProbColumnNames)
        dropped == DropColumns(noProb, ColumnsToDrop)
        half == GetDummies(dropped, "half_inning", HalfOrder, HalfDummy)
        result == GetDummies(half, "result", ResultOrder, ResultDummy)
    IN  Reconcile(feature_names, result)

(***************************************************************************)
(* Tactical classifier: the predictor object (model_training.py)           *)
(*                                                                         *)
(* A predictor is [model, feature_names], both Nothing after __init__.     *)
(* A held model is [fitted, cols, classes, seed]: whether fit has run, the *)
(* ordered columns it was fitted with, classes_ (the labels, sorted) and a *)
(* digest of the training data standing for the fitted trees.              *)
(* Probabilities are in 100000ths, percentages in hundredths of a percent. *)
(***************************************************************************)
NewPredictor == [model |-> Nothing, feature_names |-> Nothing]

\* tactics_to_category, as _initialize_tactics_mapping fills it; Nothing
\* for a key it does not hold.
TacticsToCategory(tactic) ==
    IF \E c \in Range(CategoryOrder) : InSeq(tactic, TACTICAL_CATEGORIES[c])
        THEN Some(CHOOSE c \in Range(CategoryOrder) :
                    InSeq(tactic, TACTICAL_CATEGORIES[c]))
        ELSE Nothing

\* The labels in sorted order, as classes_ lists them.
LabelOrder ==
    <<"aggressive_baserunning", "conservative_baserunning", "contact_hitting",
      "defensive_outs", "double_play", "field_defense", "other",
      "patient_hitting", "power_hitting", "small_ball", "strikeout_pitching",
      "zone_defense">>

\* A training table stands for `copies` repetitions of each of its rows.
LabelCount(data, label) ==
    data.copies
        * Cardinality({i \in 1..Len(data.rows) :
                            data.rows[i]["primary_tactic"] = label})

\* y after the mask y != 'other': the labels left.
LabelsKept(data) ==
    {l \in Range(LabelOrder) \ {"other"} : LabelCount(data, l) > 0}

RECURSIVE SumOver(_, _, _)
SumOver(data, labels, order) ==
    IF order = <<>> THEN 0
    ELSE (IF order[1] \in labels THEN LabelCount(data, order[1]) ELSE 0)
            + SumOver(data, labels, Tail(order))

SamplesKept(data) == SumOver(data, LabelsKept(data), LabelOrder)

\* train_test_split(X, y, test_size=0.2, stratify=y) raises ValueError when
\* there is no sample, when the train part would be empty, when a class
\* has a single member, or when either part is smaller than the number of
\* classes.
SplitFails(data) ==
    LET n == SamplesKept(data)
        k == Cardinality(LabelsKept(data))
        n_test == (n + 4) \div 5
        n_train == n - n_test
    IN  \/ n = 0
        \/ n_train = 0
        \/ \E l \in LabelsKept(data) : LabelCount(data, l) < 2
        \/ n_train < k
        \/ n_test < k

\* A 5-fold stratified split raises ValueError when every class has fewer
\* than 5 members.
FoldsFail(counts) == \A i \in 1..Len(counts) : counts[i] < 5

KeptCounts(data) ==
    LET order == SelectSeqBy(LabelOrder, LabelsKept(data))
    IN  [i \in 1..Len(order) |-> LabelCount(data, order[i])]

\* The members each class keeps in the train part, one sequence for every
\* outcome of the stratified split.  The train part has n - ceil(0.2 n)
\* rows; each class gets the integer part of its share of them, and the
\* rows still to place go to the classes with the largest fractional
\* parts, one each.  Classes with equal fractional parts are picked among
\* by the split's random generator: every pick is an outcome.  (Between
\* classes of different size the floating-point shares may differ in the
\* last digit and settle the pick; both picks are outcomes here.)
TrainCounts(data) ==
    LET c == KeptCounts(data)
        n == SamplesKept(data)
        n_train == n - (n + 4) \div 5
        floored == [i \in 1..Len(c) |-> (c[i] * n_train) \div n]
        remainder == [i \in 1..Len(c) |-> (c[i] * n_train) % n]
        need_to_add == n_train - SeqSum(floored)
        Picks ==
            {inds \in SUBSET (1..Len(c)) :
                /\ Cardinality(inds) = need_to_add
                /\ \A i \in inds, j \in (1..Len(c)) \ inds :
                        remainder[i] >= remainder[j]}
    IN  IF n = 0 THEN {c}
        ELSE {[i \in 1..Len(c) |->
                    floored[i] + (IF i \in inds THEN 1 ELSE 0)] :
                inds \in Picks}

RowSum(cols, row) == SeqSum([i \in 1..Len(cols) |-> row[cols[i]]])

\* The digest of the training data a fitted model carries.
FitSeed(X, data) ==
    (SeqSum([i \in 1..Len(X.rows) |->
                IF data.rows[i]["primary_tactic"] = "other" THEN 0
                ELSE RowSum(X.cols, X.rows[i])]) + data.copies) % 2

\* train(training_data, optimize) on predictor state p: the state it
\* leaves and the exception it raises ("" when it returns).  y_train is
\* the outcome of the split: the members of each class in the train part.
train(p, data, optimize, y_train) ==
    LET X == prepare_features(p.feature_names, data)
    IN  IF ~ InSeq("primary_tactic", data.cols)
            THEN [pred |-> p, err |-> "KeyError"]
        ELSE
        LET named == [p EXCEPT !.feature_names = Some(X.cols)]
            fittedModel ==
                [fitted |-> TRUE, cols |-> X.cols,
                 classes |-> SelectSeqBy(LabelOrder, LabelsKept(data)),
                 seed |-> FitSeed(X, data)]
            unfitted ==
                [fitted |-> FALSE, cols |-> <<>>, classes |-> <<>>, seed |-> 0]
            trained == [named EXCEPT !.model = Some(fittedModel)]
        IN  IF SplitFails(data)
                THEN [pred |-> named, err |-> "ValueError"]
            ELSE IF optimize /\ (X.cols = <<>> \/ FoldsFail(y_train))
                THEN [pred |-> named, err |-> "ValueError"]
            ELSE IF ~ optimize /\ X.cols = <<>>
                THEN [pred |-> [named EXCEPT !.model = Some(unfitted)],
                      err |-> "ValueError"]
            ELSE IF FoldsFail(KeptCounts(data))
                THEN [pred |-> trained, err |-> "ValueError"]
            ELSE [pred |-> trained, err |-> ""]

\* The class probabilities of the first row, in classes_ order and in
\* 100000ths: a fixed function of the fitted model and of the row.  One
\* half of the rows gives shares that rise along classes_ (for two classes
\* 0.30015 and 0.69985, half way between two hundredths of a percent), the
\* other half leaves the first class just under 5%.
ClassifierProba(m, cols, row) ==
    LET k == Len(m.classes)
        sig == (m.seed + RowSum(cols, row)) % 2
        low == 60030 \div k
    IN  IF k = 1 THEN <<100000>>
        ELSE IF sig = 0
            THEN [i \in 1..k |-> IF i = k THEN 100000 - (k - 1) * low ELSE low]
        ELSE [i \in 1..k |->
                IF i = 1 THEN 4999 ELSE IF i = k THEN 95001 ELSE 0]

\* round(prob * 100, 2) of a numpy float64, in hundredths of a percent:
\* the product prob * 100 is a double, and numpy rounds it as
\* rint(x * 100) / 100.
PercentOf(prob) == NumpyRound2(FloatMul(FloatRatio(prob, 100000), Float100))

\* PercentOf for the probabilities the classifier of the model returns for
\* up to 8 classes, worked out once
ClassifierValues ==
    {0, 4999, 95001, 100000}
        \cup {60030 \div k : k \in 2..8}
        \cup {100000 - (k - 1) * (60030 \div k) : k \in 2..8}
PercentTable == [prob \in ClassifierValues |-> PercentOf(prob)]

Percent(prob) ==
    IF prob \in ClassifierValues THEN PercentTable[prob] ELSE PercentOf(prob)

\* prob >= 0.05
AtLeastFivePercent(prob) == prob >= 5000

RECURSIVE InsertDesc(_, _)
\* e placed behind every entry of the descending list s that is >= e
InsertDesc(s, e) ==
    IF s = <<>> THEN <<e>>
    ELSE IF s[1].prob >= e.prob THEN <<s[1]>> \o InsertDesc(Tail(s), e)
    ELSE <<e>> \o s

\* Mutant of SortDesc: the per-category sort is left out.
SortDescSkipped(s) == s

RECURSIVE SortDesc(_)
\* sorted(items, key=prob, reverse=True): descending and stable.
SortDesc(s) ==
    IF s = <<>> THEN <<>>
    ELSE InsertDesc(SortDesc(SubSeq(s, 1, Len(s) - 1)), s[Len(s)])

\* The entries of one category, in classes_ order, before the sort.
CategoryEntries(category, classes, probs) ==
    LET idx == SelectSeqBy([i \in 1..Len(classes) |-> i],
                    {i \in 1..Len(classes) :
                        /\ AtLeastFivePercent(probs[i])
                        /\ TacticsToCategory(classes[i]) = Some(category)})
    IN  [j \in 1..Len(idx) |->
            [tactic |-> classes[idx[j]], prob |-> Percent(probs[idx[j]])]]

NoResult == [c \in Range(CategoryOrder) |-> <<>>]

\* predict_proba(game_state) on predictor state p: the exception raised
\* ("" for none), the table handed to the classifier (Nothing when the
\* call is not reached) and the mapping returned.
predict_proba(p, game_state) ==
    LET features == prepare_features(p.feature_names, game_state)
    IN  IF ~ IsSome(p.model)
            THEN [err |-> "AttributeError", handed |-> Nothing,
                  result |-> NoResult]
        ELSE
        LET m == Get(p.model)
        IN  IF ~ m.fitted
                THEN [err |-> "NotFittedError", handed |-> Some(features),
                      result |-> NoResult]
            ELSE IF features.cols /= m.cols
                THEN [err |-> "ValueError", handed |-> Some(features),
                      result |-> NoResult]
            ELSE
            LET probs == ClassifierProba(m, features.cols, features.rows[1])
            IN  IF \E i \in 1..Len(m.classes) :
                        /\ AtLeastFivePercent(probs[i])
                        /\ ~ IsSome(TacticsToCategory(m.classes[i]))
                    THEN [err |-> "KeyError", handed |-> Some(features),
                          result |-> NoResult]
                    ELSE [err |-> "", handed |-> Some(features),
                          result |->
                            [c \in Range(CategoryOrder) |->
                                SortDesc(CategoryEntries(c, m.classes, probs))]]

(***************************************************************************)
(* Persistence (model_training.py 345-364)                                 *)
(*                                                                         *)
(* The artifact is the pickled dict: which of the keys 'model' and         *)
(* 'feature_names' it holds, and their values.                             *)
(***************************************************************************)
\* save_model: joblib.dump({'model': ..., 'feature_names': ...}).
save_model(p) ==
    [has_model |-> TRUE, model |-> p.model,
     has_feature_names |-> TRUE, feature_names |-> p.feature_names]

\* load_model on predictor state p with the file content `file` (Nothing
\* when there is no file): the state it leaves and the exception raised.
\* The two assignments run in order, then classes_ of the new model is
\* printed.
load_model(p, file) ==
    IF ~ IsSome(file) THEN [pred |-> p, err |-> "FileNotFoundError"]
    ELSE
        LET a == Get(file)
            withModel == [p EXCEPT !.model = a.model]
            both == [model |-> a.model, feature_names |-> a.feature_names]
        IN  IF ~ a.has_model THEN [pred |-> p, err |-> "KeyError"]
            ELSE IF ~ a.has_feature_names
                THEN [pred |-> withModel, err |-> "KeyError"]
            ELSE IF ~ IsSome(a.model) \/ ~ Get(a.model).fitted
                THEN [pred |-> both, err |-> "AttributeError"]
            ELSE [pred |-> both, err |-> ""]

(***************************************************************************)
(* SpecPredictor: P is the predictor of the training program (train.py,    *)
(* main.py), Q the one an MLBTacticalAnalyzer loads; both share the file.  *)
(***************************************************************************)
MaxCalls == 5

Predictors == {"P", "Q"}
Trainers == {"P"}

RowA == [inning |-> 1, outs |-> 0, batter_ops |-> 900, half_inning |-> "top",
         result |-> "Single", primary_tactic |-> "contact_hitting",
         batter_id |-> 7, prob_contact_hitting |-> 40]
RowB == [inning |-> 8, outs |-> 2, batter_ops |-> 0, half_inning |-> "bottom",
         result |-> "Walk", primary_tactic |-> "patient_hitting",
         batter_id |-> 8, prob_contact_hitting |-> 0]
RowO == [inning |-> 3, outs |-> 1, batter_ops |-> 0, half_inning |-> "top",
         result |-> "Single", primary_tactic |-> "other",
         batter_id |-> 9, prob_contact_hitting |-> 0]

Restrict(cols, rows) ==
    [i \in 1..Len(rows) |-> [c \in Range(cols) |-> rows[i][c]]]

TrainColumnLists ==
    {<<"inning", "outs", "half_inning", "result", "batter_id",
       "primary_tactic", "prob_contact_hitting">>,
     <<"inning", "outs", "result">>,
     <<"batter_id", "primary_tactic">>}
TrainRowSeqs == {<<RowA, RowB>>, <<RowA, RowO>>, <<RowO>>}
SampleCopies == {1, 10}

Datasets ==
    {[cols |-> c, rows |-> Restrict(c, rs), copies |-> n] :
        c \in TrainColumnLists, rs \in TrainRowSeqs, n \in SampleCopies}

PredictColumnLists ==
    {<<"inning", "outs", "half_inning", "result">>,
     <<"outs">>,
     <<"batter_ops", "result", "outs", "inning", "prob_contact_hitting">>}

PredictRowSeqs == {<<RowA>>, <<RowB, RowA>>}

PredictTables ==
    {[cols |-> c, rows |-> Restrict(c, rs)] :
        c \in PredictColumnLists, rs \in PredictRowSeqs}

InitPredictor ==
    /\ FeaturesIdle
    /\ PredictorIdle
    /\ FetcherIdle /\ ApiIdle
    /\ EnhancerIdle
    /\ LabelerIdle /\ TableIdle /\ WeightsIdle

Call(op, who, err, pre, input, output) ==
    [op |-> op, who |-> who, err |-> err, pre |-> pre,
     input |-> input, output |-> output]

\* What the claims about train speak of: whether the label column is
\* there and how many distinct labels are left after the 'other' rows go.
DatasetFacts(data) ==
    [has_label |-> InSeq("primary_tactic", data.cols),
     labels |-> IF InSeq("primary_tactic", data.cols)
                    THEN Cardinality(LabelsKept(data)) ELSE 0]

\* The outcomes of the split train reaches: none is drawn when the label
\* column is missing, as y = training_data['primary_tactic'] raises first.
SplitOutcomes(data) ==
    IF InSeq("primary_tactic", data.cols) THEN TrainCounts(data) ELSE {<<>>}

Train(w, data, optimize) ==
    \E y_train \in SplitOutcomes(data) :
        LET o == train(pred[w], data, optimize, y_train)
        IN  /\ calls < MaxCalls
            /\ calls' = calls + 1
            /\ pred' = [pred EXCEPT ![w] = o.pred]
            /\ ready' = IF o.err = "" THEN ready \cup {w} ELSE ready
            /\ last' = Call("train", w, o.err, Some(pred[w]),
                            Some(DatasetFacts(data)), Nothing)
            /\ UNCHANGED <<play, play_data, disk, writer, enh, lab, tbl, wts,
                           fetch, api>>

PredictProba(w, t) ==
    LET o == predict_proba(pred[w], t)
    IN  /\ last' = Call("predict_proba", w, o.err, Nothing, Some(t),
                        Some([handed |-> o.handed, result |-> o.result]))
        /\ UNCHANGED <<play, play_data, pred, disk, writer, ready, calls, enh, lab, tbl, wts, fetch, api>>

SaveModel(w) ==
    /\ calls < MaxCalls
    /\ calls' = calls + 1
    /\ disk' = Some(save_model(pred[w]))
    /\ writer' = Some(pred[w])
    /\ last' = Call("save_model", w, "", Nothing, Nothing, Nothing)
    /\ UNCHANGED <<play, play_data, pred, ready, enh, lab, tbl, wts, fetch, api>>

LoadModel(w) ==
    LET o == load_model(pred[w], disk)
    IN  /\ calls < MaxCalls
        /\ calls' = calls + 1
        /\ pred' = [pred EXCEPT ![w] = o.pred]
        /\ ready' = IF o.err = "" THEN ready \cup {w} ELSE ready
        /\ last' = Call("load_model", w, o.err, Some(pred[w]), Nothing, Nothing)
        /\ UNCHANGED <<play, play_data, disk, writer, enh, lab, tbl, wts, fetch, api>>

\* The file is cut short or written by another version of the program: one
\* of the two keys is missing from the dict it unpickles to.
TruncateArtifact(key) ==
    /\ IsSome(disk)
    /\ Get(disk).has_model /\ Get(disk).has_feature_names
    /\ disk' = Some(IF key = "model"
                        THEN [Get(disk) EXCEPT !.has_model = FALSE,
                                               !.model = Nothing]
                        ELSE [Get(disk) EXCEPT !.has_feature_names = FALSE,
                                               !.feature_names = Nothing])
    /\ writer' = Nothing
    /\ last' = [NoCall EXCEPT !.op = "truncate"]
    /\ UNCHANGED <<play, play_data, pred, ready, calls, enh, lab, tbl, wts, fetch, api>>

NextPredictor ==
    \/ \E w \in Trainers, d \in Datasets, optimize \in BOOLEAN :
            Train(w, d, optimize)
    \/ \E w \in Predictors, t \in PredictTables : PredictProba(w, t)
    \/ \E w \in Predictors : SaveModel(w)
    \/ \E w \in Predictors : LoadModel(w)
    \/ \E key \in {"model", "feature_names"} : TruncateArtifact(key)

SpecPredictor == InitPredictor /\ [][NextPredictor]_vars

(***************************************************************************)
(* Claims about the predictor                                              *)
(***************************************************************************)
HoldsFittedModel(w) == IsSome(pred[w].model) /\ Get(pred[w].model).fitted

\* C2: once a model has been trained or loaded, whatever columns the input
\* table has, the table predict_proba hands to the classifier has exactly
\* the stored feature names in the stored order, with 0 in every column the
\* input lacks, and the call does not fail over the columns.
C2_SchemaReconciled ==
    (/\ last.op = "predict_proba"
     /\ last.who \in ready
     /\ HoldsFittedModel(last.who)) =>
        LET names == pred[last.who].feature_names
            o == Get(last.output)
            given == prepare_features(Nothing, Get(last.input))
        IN  /\ IsSome(names)
            /\ IsSome(o.handed)
            /\ Get(o.handed).cols = Get(names)
            /\ \A c \in Range(Get(names)) \ Range(given.cols) :
                    \A i \in 1..Len(Get(o.handed).rows) :
                        Get(o.handed).rows[i][c] = 0
            /\ last.err /= "ValueError"

\* C3: predict_proba on a predictor on which neither train nor load_model
\* has succeeded fails with ModelNotLoadedError and with no other error.
C3_ModelNotLoadedError ==
    (last.op = "predict_proba" /\ last.who \notin ready) =>
        last.err = "ModelNotLoadedError"

\* C4: train fails with TrainingError when fewer than 2 distinct labels are
\* left after the 'other' rows are removed or when the primary_tactic
\* column is absent, and then the predictor's model is the one it had.
C4_TrainingError ==
    (/\ last.op = "train"
     /\ \/ ~ Get(last.input).has_label
        \/ Get(last.input).labels < 2) =>
        /\ last.err = "TrainingError"
        /\ pred[last.who].model = Get(last.pre).model

\* C5: in every reachable state each predictor either holds neither a model
\* nor feature names, or holds a fitted model and exactly the ordered
\* columns that model was fitted with.
C5_NamesMatchModel ==
    \A w \in Predictors :
        \/ pred[w] = NewPredictor
        \/ /\ HoldsFittedModel(w)
           /\ pred[w].feature_names = Some(Get(pred[w].model).cols)

\* C6: load_model either replaces both the model and the feature names by
\* the artifact's, or, when the artifact lacks one of the two fields, fails
\* and leaves both as they were before the call.
C6_LoadAtomic ==
    last.op = "load_model" =>
        \/ /\ IsSome(disk)
           /\ Get(disk).has_model /\ Get(disk).has_feature_names
           /\ pred[last.who] = [model |-> Get(disk).model,
                                feature_names |-> Get(disk).feature_names]
        \/ /\ last.err /= ""
           /\ pred[last.who] = Get(last.pre)

\* C8: the mapping predict_proba returns holds, per category, exactly the
\* classes of that category whose probability is at least 5%, each with
\* the percentage rounded to 2 decimals (a hundredth of a percent nearest to
\* it, either of the two when the decimal probability lies half way between
\* them), in non-increasing order.
C8_ResultMapping ==
    (last.op = "predict_proba" /\ last.err = "") =>
        LET m == Get(pred[last.who].model)
            o == Get(last.output)
            probs == ClassifierProba(m, Get(o.handed).cols, Get(o.handed).rows[1])
            ClassIndex(tactic) ==
                CHOOSE i \in 1..Len(m.classes) : m.classes[i] = tactic
        IN  \A c \in Range(CategoryOrder) :
                LET entries == o.result[c]
                IN  /\ {entries[j].tactic : j \in 1..Len(entries)}
                        = {m.classes[i] : i \in
                            {i \in 1..Len(m.classes) :
                                /\ 100 * probs[i] >= 5 * 100000
                                /\ InSeq(m.classes[i], TACTICAL_CATEGORIES[c])}}
                    /\ \A j, k \in 1..Len(entries) :
                            entries[j].tactic = entries[k].tactic => j = k
                    /\ \A j \in 1..Len(entries) :
                            2 * Abs(10 * entries[j].prob
                                    - probs[ClassIndex(entries[j].tactic)]) <= 10
                    /\ \A j \in 1..(Len(entries) - 1) :
                            entries[j].prob >= entries[j + 1].prob

\* A prediction whose category lists two tactics, the later class first.
C8_Witness ==
    /\ last.op = "predict_proba" /\ last.err = ""
    /\ LET entries == Get(last.output).result["OFFENSIVE"]
       IN  /\ Len(entries) = 2
           /\ entries[1].tactic = "patient_hitting"
           /\ entries[2].tactic = "contact_hitting"
           /\ entries[1].prob > entries[2].prob

(***************************************************************************)
(* Prediction enhancer (predictor.py 163-353)                              *)
(*                                                                         *)
(* Probabilities are percentages in hundredths, each standing for the      *)
(* double nearest to it; a pressure_index cell of a table holds the double *)
(* itself, since the value calculate_advanced_metrics computes need not be *)
(* the double nearest to a decimal.  The arithmetic is the code's, on      *)
(* doubles.  The ratios of the momentum analysis are quotients of two      *)
(* small integers and are kept as the fraction [num, den] in lowest terms  *)
(* that the quotient is the nearest double of.  The classifier output is,  *)
(* per category, the list of [tactic, prob] in the order of the dict.      *)
(***************************************************************************)
RECURSIVE GCD(_, _)
GCD(a, b) == IF b = 0 THEN a ELSE GCD(b, a % b)

\* n/d in lowest terms, for n >= 0 and d > 0
Rat(n, d) == LET g == GCD(n, d) IN [num |-> n \div g, den |-> d \div g]

RatMul(x, y) ==
    LET g1 == GCD(x.num, y.den)
        g2 == GCD(y.num, x.den)
    IN  Rat((x.num \div g1) * (y.num \div g2), (x.den \div g2) * (y.den \div g1))

\* x - y, floored at 0 when sign = 1 asks for y - x instead
RatDiff(x, y) ==
    LET n == x.num * y.den - y.num * x.den
    IN  [sign |-> IF n >= 0 THEN 1 ELSE -1, abs |-> Rat(Abs(n), x.den * y.den)]

\* the window of game_state.tail(5)
RecentWindow == 5
\* abs(pressure_index difference) < 0.2
PressureTolerance == 200
\* recent_plays['pressure_index'] > 1.5
PressurePlay == 1500

Tail5(s) == IF Len(s) <= RecentWindow THEN s
            ELSE SubSeq(s, Len(s) - RecentWindow + 1, Len(s))

\* _find_similar_situations: Nothing for None.  The difference of the two
\* pressure_index cells is the double the subtraction of the two doubles
\* gives, compared with the double 0.2.
find_similar_situations(historical_data, game_state) ==
    IF ~ IsSome(historical_data) \/ game_state = <<>> THEN Nothing
    ELSE
        LET current_state == game_state[Len(game_state)]
            Similar(h) ==
                /\ h.inning = current_state.inning
                /\ h.outs = current_state.outs
                /\ FloatLess(
                        FloatAbs(FloatSub(h.pressure_index,
                                          current_state.pressure_index)),
                        FloatRatio(PressureTolerance, 1000))
            similar == SelectSeq(Get(historical_data), Similar)
        IN  IF similar = <<>> THEN Nothing ELSE Some(similar)

\* Mutant of SuccessRate: the successes are set against all the similar
\* situations, not against those of the tactic.
SuccessRateOverAll(similar, tactic) ==
    LET Succeeded(h) == h.success /\ h.tactic = tactic
        total == Len(similar)
        success == Len(SelectSeq(similar, Succeeded))
    IN  IF total > 0
            THEN NumpyRound2(FloatMul(FloatRatio(success, total), Float100))
            ELSE 0

\* round(success / total * 100, 2) of one tactic, in hundredths of a
\* percent: the quotient of the two numpy integers is a float64, and so is
\* its product with 100, which numpy rounds.
SuccessRate(similar, tactic) ==
    LET WithTactic(h) == h.tactic = tactic
        Succeeded(h) == h.success /\ h.tactic = tactic
        total == Len(SelectSeq(similar, WithTactic))
        success == Len(SelectSeq(similar, Succeeded))
    IN  IF total > 0
            THEN NumpyRound2(FloatMul(FloatRatio(success, total), Float100))
            ELSE 0

\* _analyze_historical_patterns: success_rates is Nothing for the empty
\* dict, else the rate of every tactic of the taxonomy.
analyze_historical_patterns(historical_data, game_state) ==
    LET similar_situations == find_similar_situations(historical_data, game_state)
    IN  IF ~ IsSome(historical_data) \/ game_state = <<>>
            THEN [success_rates |-> Nothing, sample_size |-> 0]
        ELSE IF ~ IsSome(similar_situations)
            THEN [success_rates |-> Nothing, sample_size |-> 0]
        ELSE [success_rates |->
                Some([t \in Tactics |-> SuccessRate(Get(similar_situations), t)]),
              sample_size |-> Len(Get(similar_situations))]

\* success_indicators[team_type]
SuccessIndicators(team_type) ==
    IF team_type = "batting" THEN <<"hit", "walk", "run_scored">>
    ELSE <<"strikeout", "out", "double_play">>

\* the sum, over the indicators that are columns of the table, of the
\* column sums
IndicatorCount(plays, team_type) ==
    LET ind == SuccessIndicators(team_type)
    IN  SeqSum([i \in 1..Len(plays) |->
                    SeqSum([j \in 1..Len(ind) |->
                                IF ind[j] \in DOMAIN plays[i]
                                    THEN plays[i][ind[j]] ELSE 0])])

\* _calculate_recent_success: min(success_count / len(recent_plays), 1.0)
calculate_recent_success(recent_plays, team_type) ==
    IF recent_plays = <<>> THEN Rat(0, 1)
    ELSE LET n == Len(recent_plays)
         IN  Rat(Min(IndicatorCount(recent_plays, team_type), n), n)

\* _is_successful_pressure_play
is_successful_pressure_play(p, team_type) ==
    LET ind == SuccessIndicators(team_type)
    IN  \E j \in 1..Len(ind) : ind[j] \in DOMAIN p /\ p[ind[j]] /= 0

\* _calculate_pressure_handling
calculate_pressure_handling(recent_plays, team_type) ==
    LET UnderPressure(p) ==
            FloatLess(FloatRatio(PressurePlay, 1000), p.pressure_index)
        Handled(p) == UnderPressure(p) /\ is_successful_pressure_play(p, team_type)
        pressure_plays == SelectSeq(recent_plays, UnderPressure)
    IN  IF recent_plays = <<>> \/ pressure_plays = <<>> THEN Rat(0, 1)
        ELSE Rat(Len(SelectSeq(recent_plays, Handled)), Len(pressure_plays))

\* _analyze_momentum: Nothing for the empty dict.
analyze_momentum(game_state) ==
    IF game_state = <<>> THEN Nothing
    ELSE
        LET recent_plays == Tail5(game_state)
            Team(team_type) ==
                [recent_success |-> calculate_recent_success(recent_plays, team_type),
                 pressure_handling |->
                    calculate_pressure_handling(recent_plays, team_type)]
        IN  Some([batting_team |-> Team("batting"),
                  pitching_team |-> Team("pitching")])

\* momentum_weights.get(tactic, 0.1), in hundredths
MomentumWeight(tactic) ==
    CASE tactic = "aggressive_hitting" -> 20
      [] tactic = "patient_hitting" -> -10
      [] tactic = "power_hitting" -> 15
      [] tactic = "small_ball" -> 10
      [] tactic = "defensive_pressure" -> 20
      [] tactic = "strikeout_hunting" -> 15
      [] OTHER -> 10

\* the float a ratio of the momentum analysis is
RatioFloat(r) == FloatRatio(r.num, r.den)

\* Mutant of calculate_momentum_factor: the difference is taken the other
\* way round (pitching - batting).
calculate_momentum_factor_reversed(momentum, tactic) ==
    LET batting_momentum == RatioFloat(momentum.batting_team.recent_success)
        pitching_momentum == RatioFloat(momentum.pitching_team.recent_success)
        weight == FloatRatio(MomentumWeight(tactic), 100)
        momentum_diff == FloatSub(pitching_momentum, batting_momentum)
    IN  FloatMul(momentum_diff, weight)

\* _calculate_momentum_factor: (batting - pitching recent success) * weight
calculate_momentum_factor(momentum, tactic) ==
    LET batting_momentum == RatioFloat(momentum.batting_team.recent_success)
        pitching_momentum == RatioFloat(momentum.pitching_team.recent_success)
        weight == FloatRatio(MomentumWeight(tactic), 100)
        momentum_diff == FloatSub(batting_momentum, pitching_momentum)
    IN  FloatMul(momentum_diff, weight)

\* 1 + (hist_success - 50) / 100, hist_success in hundredths
HistoricalFactor(hist_success) ==
    FloatAdd(FloatOfInt(1),
             FloatDivInt(FloatSub(FloatRatio(hist_success, 100), FloatOfInt(50)),
                         100))

\* round(min(max(prob, 0), 100), 2) of the float64 prob, in hundredths:
\* max and min hand back the integers 0 and 100 when they win.
ClampRound(prob) ==
    IF prob.neg THEN 0
    ELSE IF FloatLess(Float100, prob) THEN 100 * 100
    ELSE NumpyRound2(prob)

\* Mutant of AdjustedProb: the historical factor is applied whatever the
\* rate is.
AdjustedProbUnguarded(prob, hist_success, momentum, tactic) ==
    LET afterHist == FloatMul(FloatRatio(prob, 100), HistoricalFactor(hist_success))
        afterMomentum ==
            IF IsSome(momentum)
                THEN FloatMul(afterHist,
                        FloatAdd(FloatOfInt(1),
                                 calculate_momentum_factor(Get(momentum), tactic)))
                ELSE afterHist
    IN  ClampRound(afterMomentum)

\* The body of the loop of _adjust_probabilities for one tactic: prob and
\* hist_success in hundredths, each the double nearest to it.
AdjustedProb(prob, hist_success, momentum, tactic) ==
    LET afterHist ==
            IF hist_success > 0
                THEN FloatMul(FloatRatio(prob, 100), HistoricalFactor(hist_success))
                ELSE FloatRatio(prob, 100)
        afterMomentum ==
            IF IsSome(momentum)
                THEN FloatMul(afterHist,
                        FloatAdd(FloatOfInt(1),
                                 calculate_momentum_factor(Get(momentum), tactic)))
                ELSE afterHist
    IN  ClampRound(afterMomentum)

\* historical.get('success_rates', {}).get(category, {}).get(tactic, 0)
HistSuccess(historical, category, tactic) ==
    IF IsSome(historical.success_rates)
            /\ InSeq(tactic, TACTICAL_CATEGORIES[category])
        THEN Get(historical.success_rates)[tactic]
        ELSE 0

\* _adjust_probabilities
adjust_probabilities(base_probs, historical, momentum) ==
    [category \in DOMAIN base_probs |->
        [j \in 1..Len(base_probs[category]) |->
            LET e == base_probs[category][j]
            IN  [tactic |-> e.tactic,
                 prob |-> AdjustedProb(e.prob,
                            HistSuccess(historical, category, e.tactic),
                            momentum, e.tactic)]]]

\* _enhance_predictions: the dict it returns.  The per-category dicts of
\* the caller's predictions are shared with it and hold the adjusted
\* values afterwards.
enhance_predictions(predictions, historical_data, game_state) ==
    LET historical_patterns ==
            analyze_historical_patterns(historical_data, game_state)
        momentum_analysis == analyze_momentum(game_state)
    IN  [tactical_probabilities |->
            adjust_probabilities(predictions.tactical_probabilities,
                                 historical_patterns, momentum_analysis),
         momentum_analysis |-> momentum_analysis,
         historical_patterns |-> historical_patterns]

(***************************************************************************)
(* SpecEnhancer: an analyzer with a historical corpus (or none), a         *)
(* classifier output and the plays seen so far; one call of                *)
(* _enhance_predictions.                                                   *)
(***************************************************************************)
MaxHist == 3
MaxPlays == 2

HistRow(pressure_index, tactic, success) ==
    [inning |-> 7, outs |-> 1, pressure_index |-> pressure_index,
     tactic |-> tactic, success |-> success]

\* pressure_index cells written as decimals (1.5, 1.7, 1.8: the doubles
\* nearest to them) and cells computed by calculate_advanced_metrics for
\* inning 7 with one out: 1.7999999999999998 without and 2.0 with a runner
\* in scoring position
HistRows ==
    {HistRow(FloatRatio(1500, 1000), "power_hitting", TRUE),
     HistRow(FloatRatio(1500, 1000), "patient_hitting", FALSE),
     HistRow(FloatRatio(1700, 1000), "power_hitting", TRUE),
     HistRow(FloatRatio(1800, 1000), "power_hitting", FALSE),
     HistRow(PressureFloat(7, 1, 1), "power_hitting", TRUE)}

Histories ==
    {Nothing} \cup {Some(s) : s \in UNION {[1..n -> HistRows] : n \in 0..MaxHist}}

PlayRow(pressure_index, hit, run_scored, strikeout) ==
    [inning |-> 7, outs |-> 1, pressure_index |-> pressure_index,
     hit |-> hit, walk |-> 0, run_scored |-> run_scored,
     strikeout |-> strikeout, out |-> strikeout, double_play |-> 0]

PlayRows ==
    {PlayRow(FloatRatio(1600, 1000), 1, 0, 0),
     PlayRow(FloatRatio(1500, 1000), 1, 1, 0),
     PlayRow(FloatRatio(1500, 1000), 0, 0, 0),
     PlayRow(PressureFloat(7, 1, 0), 1, 0, 0),
     PlayRow(PressureFloat(7, 1, 1), 0, 0, 1)}

GameStates == UNION {[1..n -> PlayRows] : n \in 0..MaxPlays}

\* classifier percentages, in hundredths
BaseValues == {530, 3344, 9504}

ClassifierOutputs ==
    {[tactical_probabilities |->
        [OFFENSIVE |-> <<[tactic |-> "power_hitting", prob |-> b],
                         [tactic |-> "patient_hitting", prob |-> b]>>,
         BASERUNNING |-> <<>>,
         DEFENSIVE |-> <<[tactic |-> "double_play", prob |-> b]>>]] :
        b \in BaseValues}

InitEnhancer ==
    /\ FeaturesIdle
    /\ PredictorIdle
    /\ FetcherIdle /\ ApiIdle
    /\ LabelerIdle /\ TableIdle /\ WeightsIdle
    /\ \E p \in ClassifierOutputs, h \in Histories, g \in GameStates :
            enh = Some([base |-> p, predictions |-> p, historical_data |-> h,
                        game_state |-> g, enhanced |-> Nothing])

EnhancePredictions ==
    /\ IsSome(enh)
    /\ ~ IsSome(Get(enh).enhanced)
    /\ LET e == Get(enh)
           out == enhance_predictions(e.predictions, e.historical_data,
                                      e.game_state)
       IN  enh' = Some([e EXCEPT
                    !.enhanced = Some(out),
                    !.predictions =
                        [tactical_probabilities |-> out.tactical_probabilities]])
    /\ UNCHANGED <<play, play_data, pred, disk, writer, ready, calls, last, lab, tbl, wts, fetch, api>>

NextEnhancer == EnhancePredictions

SpecEnhancer == InitEnhancer /\ [][NextEnhancer]_vars

(***************************************************************************)
(* Claims about the enhancer                                               *)
(***************************************************************************)
Enhanced == IsSome(enh) /\ IsSome(Get(enh).enhanced)

\* The positions <<category, j>> of the classifier output.
BaseEntries ==
    {<<c, j>> \in Range(CategoryOrder) \X (1..3) :
        j <= Len(Get(enh).base.tactical_probabilities[c])}

BaseEntry(x) == Get(enh).base.tactical_probabilities[x[1]][x[2]]
FinalEntry(x) == Get(Get(enh).enhanced).tactical_probabilities[x[1]][x[2]]

\* The historical rows of the latest play's inning and outs.
SameSituation ==
    LET e == Get(enh)
    IN  IF ~ IsSome(e.historical_data) \/ e.game_state = <<>> THEN {}
        ELSE LET rows == Get(e.historical_data)
                 now == e.game_state[Len(e.game_state)]
             IN  {i \in 1..Len(rows) :
                    /\ rows[i].inning = now.inning
                    /\ rows[i].outs = now.outs}

\* |a - b| as a natural number of units 2^e, for two doubles a and b that
\* are whole numbers of such units.
GapInUnits(a, b, e) ==
    LET A == BigShiftLeft(a.mant, a.exp - e)
        B == BigShiftLeft(b.mant, b.exp - e)
    IN  IF a.neg /= b.neg THEN BigAdd(A, B)
        ELSE IF BigLess(A, B) THEN BigSub(B, A)
        ELSE BigSub(A, B)

\* |a - b| < 0.2 for the numbers the doubles a and b are, with no rounding:
\* the gap is D units of 2^e, and D x 2^e < 1/5 is 5 D < 2^(-e); when the
\* unit is 1 or more the gap is a whole number and must be 0.
CloserThanFifth(a, b) ==
    LET e == Min(a.exp, b.exp)
        D == GapInUnits(a, b, e)
    IN  IF e >= 0 THEN D = <<>>
        ELSE BigLess(BigMulSmall(D, 5), BigShiftLeft(<<1>>, -e))

\* The matching situations of the call: the historical rows of the latest
\* play's inning and outs whose pressure_index is less than 0.2 away from
\* the play's.
MatchingRows ==
    LET e == Get(enh)
    IN  {i \in SameSituation :
            CloserThanFifth(Get(e.historical_data)[i].pressure_index,
                            e.game_state[Len(e.game_state)].pressure_index)}

Samples(M, tactic) ==
    {i \in M : Get(Get(enh).historical_data)[i].tactic = tactic}
Successes(M, tactic) ==
    {i \in Samples(M, tactic) : Get(Get(enh).historical_data)[i].success}

\* (batting - pitching recent success) x weight in exact arithmetic, as a
\* sign and a magnitude
ExactMomentumFactor(momentum, tactic) ==
    LET weight == MomentumWeight(tactic)
        momentum_diff == RatDiff(momentum.batting_team.recent_success,
                                 momentum.pitching_team.recent_success)
    IN  [sign |-> momentum_diff.sign * (IF weight >= 0 THEN 1 ELSE -1),
         abs |-> RatMul(momentum_diff.abs, Rat(Abs(weight), 100))]

\* 1 + m for the exact value m of the factor, which is above -1
OnePlus(m) == Rat(m.abs.den + m.sign * m.abs.num, m.abs.den)

\* 1 + m for the tactic's momentum factor m; 1 when there is no momentum.
MomentumTerm(tactic) ==
    LET momentum == Get(Get(enh).enhanced).momentum_analysis
    IN  IF IsSome(momentum)
            THEN OnePlus(ExactMomentumFactor(Get(momentum), tactic))
            ELSE Rat(1, 1)

\* f is the value v clamped to [0, 100] and rounded to 2 decimals
\* (f in hundredths, v >= 0 an exact fraction of hundredths): a hundredth
\* nearest to v, either of the two when v lies half way between them.
IsClampedRounding(f, v) ==
    LET q == v.num \div v.den
        r == v.num % v.den
    IN  IF q >= 100 * 100 THEN f = 100 * 100
        ELSE \/ f = q /\ 2 * r <= v.den
             \/ f = q + 1 /\ 2 * r >= v.den

\* C9 as stated: every tactic's final probability is
\* base x (1 + (h - 50)/100) x (1 + m), clamped to [0,100] and rounded to 2
\* decimals, h being the tactic's success rate among the matching
\* situations and 0 when it has no samples or no successes.
C9_Formula ==
    Enhanced =>
        \A x \in BaseEntries :
            LET t == BaseEntry(x).tactic
                n == Cardinality(Samples(MatchingRows, t))
                s == Cardinality(Successes(MatchingRows, t))
                H == IF n = 0 THEN Rat(1, 2) ELSE Rat(n + 2 * s, 2 * n)
            IN  /\ FinalEntry(x).tactic = t
                /\ IsClampedRounding(FinalEntry(x).prob,
                        RatMul(RatMul(Rat(BaseEntry(x).prob, 1), H),
                               MomentumTerm(t)))

\* C9 amended: the factor (1 + (h - 50)/100) is applied only when h > 0,
\* h being the success rate rounded to 2 decimals; a tactic with no samples
\* or no successes among the matching situations gets base x (1 + m).
C9_FormulaWhenRatePositive ==
    Enhanced =>
        \A x \in BaseEntries :
            LET t == BaseEntry(x).tactic
                n == Cardinality(Samples(MatchingRows, t))
                s == Cardinality(Successes(MatchingRows, t))
                h == IF n = 0 THEN 0 ELSE RoundHalfEven(s * 100 * 100, n)
                H == IF h > 0 THEN Rat(50 * 100 + h, 100 * 100)
                     ELSE Rat(1, 1)
            IN  /\ FinalEntry(x).tactic = t
                /\ IsClampedRounding(FinalEntry(x).prob,
                        RatMul(RatMul(Rat(BaseEntry(x).prob, 1), H),
                               MomentumTerm(t)))

\* A tactic with one success in three matching samples (33.33%) and a
\* momentum that is not zero, adjusted away from its base value.
C9_Witness ==
    /\ Enhanced
    /\ Cardinality(Samples(MatchingRows, "power_hitting")) = 3
    /\ Cardinality(Successes(MatchingRows, "power_hitting")) = 1
    /\ MomentumTerm("power_hitting") /= Rat(1, 1)
    /\ \E x \in BaseEntries :
        /\ BaseEntry(x).tactic = "power_hitting"
        /\ FinalEntry(x).prob /= BaseEntry(x).prob
        /\ FinalEntry(x).prob < 100 * 100

\* C10: with no historical corpus or no matching historical situation the
\* final probability is the momentum-only value; with no recent plays no
\* momentum is applied; with both absent the classifier's probabilities
\* come back unchanged.
C10_AbsentSourceIsIdentity ==
    Enhanced =>
        LET e == Get(enh)
            o == Get(e.enhanced)
        IN  /\ (MatchingRows = {} /\ e.game_state /= <<>>) =>
                    \A x \in BaseEntries :
                        IsClampedRounding(FinalEntry(x).prob,
                            RatMul(Rat(BaseEntry(x).prob, 1),
                                   MomentumTerm(BaseEntry(x).tactic)))
            /\ e.game_state = <<>> =>
                    /\ o.momentum_analysis = Nothing
                    /\ o.tactical_probabilities = e.base.tactical_probabilities

\* A corpus with rows of the latest play's inning and outs, none of which
\* matches it, and recent plays whose momentum moves a probability.
C10_Witness ==
    /\ Enhanced
    /\ IsSome(Get(enh).historical_data)
    /\ Get(Get(enh).historical_data) /= <<>>
    /\ SameSituation /= {}
    /\ MatchingRows = {}
    /\ Get(enh).game_state /= <<>>
    /\ \E x \in BaseEntries : FinalEntry(x).prob /= BaseEntry(x).prob

(***************************************************************************)
(* Claims about the momentum analysis                                      *)
(***************************************************************************)
\* The momentum analysis of the enhancer call, when there is one.
HasMomentum == Enhanced /\ IsSome(Get(Get(enh).enhanced).momentum_analysis)
Momentum == Get(Get(Get(enh).enhanced).momentum_analysis)

\* The last 5 plays handed to the call (all of them if fewer).
RecentPlays ==
    LET g == Get(enh).game_state
    IN  [i \in 1..Min(Len(g), 5) |-> g[Len(g) - Min(Len(g), 5) + i]]

\* The recent plays with at least one positive indicator of the side.
BattingSuccessPlays ==
    {i \in 1..Len(RecentPlays) :
        \/ RecentPlays[i].hit > 0
        \/ RecentPlays[i].walk > 0
        \/ RecentPlays[i].run_scored > 0}
PitchingSuccessPlays ==
    {i \in 1..Len(RecentPlays) :
        \/ RecentPlays[i].strikeout > 0
        \/ RecentPlays[i].out > 0
        \/ RecentPlays[i].double_play > 0}

\* C11: each side's recent-success ratio is the number of the last 5 plays
\* (all plays if fewer) that have at least one positive indicator of that
\* side, divided by the number of those plays.
C11_RecentSuccessRatio ==
    HasMomentum =>
        /\ Momentum.batting_team.recent_success
                = Rat(Cardinality(BattingSuccessPlays), Len(RecentPlays))
        /\ Momentum.pitching_team.recent_success
                = Rat(Cardinality(PitchingSuccessPlays), Len(RecentPlays))

BattingAhead ==
    LET d == RatDiff(Momentum.batting_team.recent_success,
                     Momentum.pitching_team.recent_success)
    IN  d.sign = 1 /\ d.abs.num > 0

StrictlyPositive(m) == m.mant /= <<>> /\ ~ m.neg
StrictlyNegative(m) == m.mant /= <<>> /\ m.neg

\* C12 as stated: whenever the batting ratio exceeds the pitching ratio the
\* momentum factor is strictly positive for every OFFENSIVE tactic, so that
\* momentum alone never lowers such a tactic's probability.
C12_OffensiveFavoured ==
    (HasMomentum /\ BattingAhead) =>
        /\ \A t \in Range(TACTICAL_CATEGORIES["OFFENSIVE"]) :
                StrictlyPositive(calculate_momentum_factor(Momentum, t))
        /\ MatchingRows = {} =>
                \A x \in BaseEntries :
                    InSeq(BaseEntry(x).tactic, TACTICAL_CATEGORIES["OFFENSIVE"])
                        => FinalEntry(x).prob >= BaseEntry(x).prob

\* C12 amended: the factor is strictly positive for power_hitting,
\* contact_hitting and small_ball and strictly negative for
\* patient_hitting; with no historical adjustment the first three are never
\* lowered and patient_hitting is never raised.
C12_OffensiveExceptPatient ==
    (HasMomentum /\ BattingAhead) =>
        /\ \A t \in {"power_hitting", "contact_hitting", "small_ball"} :
                StrictlyPositive(calculate_momentum_factor(Momentum, t))
        /\ StrictlyNegative(calculate_momentum_factor(Momentum, "patient_hitting"))
        /\ MatchingRows = {} =>
                \A x \in BaseEntries :
                    /\ BaseEntry(x).tactic
                            \in {"power_hitting", "contact_hitting", "small_ball"}
                        => FinalEntry(x).prob >= BaseEntry(x).prob
                    /\ BaseEntry(x).tactic = "patient_hitting"
                        => FinalEntry(x).prob <= BaseEntry(x).prob

\* The batting side is ahead, no historical row matches, power_hitting has
\* gone up and patient_hitting has gone down.
C12_Witness ==
    /\ HasMomentum /\ BattingAhead
    /\ MatchingRows = {}
    /\ \E x, y \in BaseEntries :
        /\ BaseEntry(x).tactic = "power_hitting"
        /\ FinalEntry(x).prob > BaseEntry(x).prob
        /\ BaseEntry(y).tactic = "patient_hitting"
        /\ FinalEntry(y).prob < BaseEntry(y).prob

(***************************************************************************)
(* SpecLabeler: Init draws one Situation Record as the loop of             *)
(* process_game_state builds it, CalculateTacticalProbabilities labels it. *)
(***************************************************************************)
LabelerInnings == {1, 7}
LabelerOuts == 0..2
LabelerEvents ==
    {"Home Run", "Single", "Triple", "Sac Bunt", "Walk", "Pickoff",
     "Caught Stealing", "Groundout", "Strikeout", "Unknown Event"}
LabelerStats ==
    StatsPool
        \cup {Some([batter_avg |-> 250, batter_ops |-> 700,
                    pitcher_k_rate |-> 9500, pitcher_gb_rate |-> 1600,
                    matchup_ops |-> 500, matchup_abs |-> 20])}

LabelerPlays ==
    {[inning |-> i, halfInning |-> "top", event |-> e, outs |-> o,
      balls |-> c.balls, strikes |-> c.strikes, home |-> h, away |-> 0,
      runners |-> r, stats |-> s] :
        i \in LabelerInnings, e \in LabelerEvents, o \in LabelerOuts,
        c \in Counts, h \in {0, MaxScore}, r \in RunnerLists,
        s \in LabelerStats}

LabelerInputs == {WithMetrics(BasePlayData(p)) : p \in LabelerPlays}

InitLabeler ==
    /\ FeaturesIdle
    /\ PredictorIdle
    /\ FetcherIdle /\ ApiIdle
    /\ EnhancerIdle
    /\ TableIdle /\ WeightsIdle
    /\ lab \in {Some([play_data |-> pd, output |-> Nothing]) :
                    pd \in LabelerInputs}

CalculateTacticalProbabilities ==
    /\ IsSome(lab)
    /\ ~ IsSome(Get(lab).output)
    /\ lab' = Some([Get(lab) EXCEPT
                !.output = Some(calculate_tactical_probabilities(
                                    Get(lab).play_data))])
    /\ UNCHANGED <<play, play_data, pred, disk, writer, ready, calls, last,
                   enh, tbl, wts, fetch, api>>

NextLabeler == CalculateTacticalProbabilities

SpecLabeler == InitLabeler /\ [][NextLabeler]_vars

(***************************************************************************)
(* Claims about the labeler                                                *)
(***************************************************************************)
Labelled == IsSome(lab) /\ IsSome(Get(lab).output)
LabelInput == Get(lab).play_data
LabelOutput == Get(Get(lab).output)

\* The tactics of the taxonomy that list the action, in insertion order.
CandidatesOf(action) ==
    SelectSeqBy(TacticOrder,
                {t \in Tactics : InSeq(action, TacticData[t].actions)})

\* C13: for an outcome action that no tactic of the taxonomy lists the
\* labeler returns exactly {'contact_hitting': 100.0} with the primary
\* tactic contact_hitting, whatever the other fields of the record are.
C13_UnmappedFallback ==
    (Labelled /\ CandidatesOf(LabelInput.result) = <<>>) =>
        /\ LabelOutput.primary_tactic = "contact_hitting"
        /\ Len(LabelOutput.probabilities) = 1
        /\ LabelOutput.probabilities[1].tactic = "contact_hitting"
        /\ LabelOutput.probabilities[1].prob = 100 * ProbUnit

\* An unknown event late in the game with runners on and player
\* statistics at hand.
C13_Witness ==
    /\ Labelled
    /\ LabelInput.result = "Unknown Event"
    /\ LabelInput.inning = 7 /\ LabelInput.num_runners = 2
    /\ IsSome(LabelInput.stats)
    /\ LabelOutput.primary_tactic = "contact_hitting"

\* A context clause as the taxonomy states it: min_* is >=, max_* is <=,
\* score_diff_range an inclusive range, scoring_position an equality.
ClauseSatisfied(c, pd) ==
    CASE c.key = "min_runners" -> pd.num_runners >= c.th
      [] c.key = "min_pressure" -> pd.pressure_index >= c.th
      [] c.key = "min_balls" -> pd.balls >= c.th
      [] c.key = "min_strikes" -> pd.strikes >= c.th
      [] c.key = "min_offensive_opportunity" -> pd.offensive_opportunity >= c.th
      [] c.key = "min_defensive_pressure" -> pd.defensive_pressure >= c.th
      [] c.key = "max_outs" -> pd.outs <= c.th
      [] c.key = "max_pressure" -> pd.pressure_index <= c.th
      [] c.key = "max_strikes" -> pd.strikes <= c.th
      [] c.key = "score_diff_range" ->
            c.th <= pd.score_diff /\ pd.score_diff <= c.th2
      [] c.key = "scoring_position" -> pd.scoring_position = c.th

\* 0.4 + 0.6 x (clauses satisfied / clauses), in ProbUnit.
StatedScore(tactic, pd) ==
    LET contexts == TacticData[tactic].contexts
        n == Len(contexts)
        k == Cardinality({i \in 1..n : ClauseSatisfied(contexts[i], pd)})
    IN  (4 * n * (ProbUnit \div 10) + 6 * k * (ProbUnit \div 10)) \div n

\* C14: for a record whose result is a mapped action, every candidate
\* tactic's score before the multipliers is 0.4 + 0.6 x (its context
\* clauses satisfied / its context clauses), each clause evaluated on its
\* own; the probability returned is that score after the multipliers.
C14_ContextScore ==
    (Labelled /\ CandidatesOf(LabelInput.result) /= <<>>) =>
        LET cands == CandidatesOf(LabelInput.result)
        IN  /\ Len(LabelOutput.probabilities) = Len(cands)
            /\ \A i \in 1..Len(cands) :
                /\ LabelOutput.probabilities[i].tactic = cands[i]
                /\ LabelOutput.probabilities[i].prob
                    = StatsProb(cands[i],
                        HighLeverageProb(cands[i],
                            StatedScore(cands[i], LabelInput), LabelInput),
                        LabelInput)

\* C15: the primary tactic is a tactic of the returned mapping whose score
\* is at least that of every other candidate, and among the candidates
\* holding the maximum it is the one that comes first in the insertion
\* order of the taxonomy.
C15_PrimaryIsFirstMaximum ==
    Labelled =>
        LET probs == LabelOutput.probabilities
            Place(t) == CHOOSE n \in 1..Len(TacticOrder) : TacticOrder[n] = t
        IN  /\ \A i, j \in 1..Len(probs) :
                    i < j => Place(probs[i].tactic) < Place(probs[j].tactic)
            /\ \E i \in 1..Len(probs) :
                /\ probs[i].tactic = LabelOutput.primary_tactic
                /\ \A j \in 1..Len(probs) : probs[j].prob <= probs[i].prob
                /\ \A j \in 1..Len(probs) :
                        probs[j].prob = probs[i].prob
                            => Place(probs[i].tactic) <= Place(probs[j].tactic)

\* A pickoff whose two candidates both score 1.0: conservative_baserunning,
\* the first of the two in the taxonomy, is the primary tactic.
C15_Witness ==
    /\ Labelled
    /\ LabelInput.result = "Pickoff"
    /\ Len(LabelOutput.probabilities) = 2
    /\ LabelOutput.probabilities[1].prob = ProbUnit
    /\ LabelOutput.probabilities[2].prob = ProbUnit
    /\ LabelOutput.probabilities[2].tactic = "field_defense"
    /\ LabelOutput.primary_tactic = "conservative_baserunning"

(***************************************************************************)
(* process_game_state over a list of plays (process_data.py 14-111)        *)
(*                                                                         *)
(* A raw play of the list carries play["count"]["outs"] as Some(n), or     *)
(* Nothing when the key is missing; the other fields are as in RawPlays.   *)
(***************************************************************************)
RECURSIVE ProcessedRows(_)
\* `processed` after the loop: the records the loop appended, in order.
ProcessedRows(plays) ==
    IF plays = <<>> THEN <<>>
    ELSE LET b == LoopBody([plays[1] EXCEPT !.outs = Get(plays[1].outs)])
         IN  (IF b.emitted
                THEN <<[row |-> b.row, primary_tactic |-> b.primary_tactic,
                        probabilities |-> b.probabilities]>>
                ELSE <<>>)
             \o ProcessedRows(Tail(plays))

RECURSIVE ProbColumns(_)
\* The prob_* columns of pd.DataFrame(processed): the tactics the records
\* carry a probability for, in the order of their first appearance.
ProbColumns(processed) ==
    IF processed = <<>> THEN <<>>
    ELSE LET earlier == ProbColumns(SubSeq(processed, 1, Len(processed) - 1))
             own == processed[Len(processed)].probabilities
         IN  earlier
                \o SelectSeq([j \in 1..Len(own) |-> own[j].tactic],
                             LAMBDA t : ~ InSeq(t, earlier))

\* df = pd.DataFrame(processed) (line 106): every row gets the union of
\* the keys of the records, and a cell whose record lacks the key is NaN.
\* A cell of a statistic or prob_* column is Some(value), or Nothing for
\* NaN; the statistic columns exist when some record has statistics.
DataFrame(processed) ==
    LET with_stats == {i \in 1..Len(processed) : IsSome(processed[i].row.stats)}
        stat_cols == UNION {DOMAIN Get(processed[i].row.stats) : i \in with_stats}
        prob_cols == ProbColumns(processed)
        StatCell(i, c) ==
            IF i \in with_stats /\ c \in DOMAIN Get(processed[i].row.stats)
                THEN Some(Get(processed[i].row.stats)[c]) ELSE Nothing
        ProbCell(i, t) ==
            LET own == processed[i].probabilities
                at == {j \in 1..Len(own) : own[j].tactic = t}
            IN  IF at = {} THEN Nothing
                ELSE Some(own[CHOOSE j \in at : TRUE].prob)
    IN  [i \in 1..Len(processed) |->
            [row |->
                [processed[i].row EXCEPT
                    !.stats = IF stat_cols = {} THEN Nothing
                              ELSE Some([c \in stat_cols |-> StatCell(i, c)])],
             primary_tactic |-> processed[i].primary_tactic,
             probabilities |->
                [j \in 1..Len(prob_cols) |->
                    [tactic |-> prob_cols[j],
                     prob |-> ProbCell(i, prob_cols[j])]]]]

\* float_columns of convert_column_types (lines 302-314)
FloatColumns ==
    {"pressure_index", "leverage_index", "run_expectancy",
     "win_probability_added", "offensive_opportunity", "defensive_pressure",
     "count_leverage", "scoring_threat", "game_stage",
     "batter_avg", "batter_obp", "batter_slg", "batter_ops",
     "batter_risp_avg", "batter_clutch_ops",
     "pitcher_era", "pitcher_whip", "pitcher_k_per_9", "pitcher_bb_per_9",
     "pitcher_h_per_9", "pitcher_gb_rate", "pitcher_k_rate",
     "pitcher_bb_rate", "matchup_avg", "matchup_ops"}

\* convert_column_types(df): NaN becomes 0.0 in the float columns.  The
\* integer, metric and boolean columns hold a number in every row, which
\* the conversions leave as it is; the other columns are not touched, so
\* NaN stays in matchup_abs and in the prob_* columns.
convert_column_types(df) ==
    [i \in 1..Len(df) |->
        [df[i] EXCEPT
            !.row.stats =
                IF ~ IsSome(@) THEN @
                ELSE Some([c \in DOMAIN Get(@) |->
                            IF c \in FloatColumns /\ ~ IsSome(Get(@)[c])
                                THEN Some(0) ELSE Get(@)[c]])]]

\* process_game_state(game_data): the exception raised ("" for none) and
\* the table returned.  play["count"]["outs"] of a play without the key
\* raises KeyError, which nothing catches.
process_game_state(plays) ==
    IF \E i \in 1..Len(plays) : ~ IsSome(plays[i].outs)
        THEN [err |-> "KeyError", table |-> Nothing]
        ELSE [err |-> "",
              table |->
                Some(convert_column_types(DataFrame(ProcessedRows(plays))))]

(***************************************************************************)
(* SpecTable: Init draws a list of raw plays, ProcessGameState extracts    *)
(* the table from it.                                                      *)
(***************************************************************************)
MaxTablePlays == 3

TablePlay(inning, event, outs, runners, stats) ==
    [inning |-> inning, halfInning |-> "top", event |-> event, outs |-> outs,
     balls |-> 1, strikes |-> 1, home |-> 0, away |-> 1, runners |-> runners,
     stats |-> stats]

TablePlays ==
    {TablePlay(8, "Home Run", Some(1), <<[start |-> "2B", end |-> "score"]>>,
               Some([batter_avg |-> 310, batter_ops |-> 900,
                     pitcher_k_rate |-> 250, pitcher_gb_rate |-> 500,
                     matchup_ops |-> 0, matchup_abs |-> 0])),
     TablePlay(1, "Unknown Event", Some(0), <<>>, Nothing),
     TablePlay(2, "Game Advisory", Some(2), <<>>, Nothing),
     TablePlay(3, "Triple", Some(-1), <<[start |-> "1B", end |-> "2B"]>>,
               Nothing),
     TablePlay(7, "Pickoff", Some(4), <<[start |-> "1B", end |-> "2B"]>>,
               Nothing),
     TablePlay(5, "Strikeout", Nothing, <<>>, Nothing)}

PlayLists == UNION {[1..n -> TablePlays] : n \in 0..MaxTablePlays}

InitTable ==
    /\ FeaturesIdle
    /\ PredictorIdle
    /\ FetcherIdle /\ ApiIdle
    /\ EnhancerIdle
    /\ LabelerIdle /\ WeightsIdle
    /\ tbl \in {Some([plays |-> l, result |-> Nothing]) : l \in PlayLists}

ProcessGameState ==
    /\ IsSome(tbl)
    /\ ~ IsSome(Get(tbl).result)
    /\ tbl' = Some([Get(tbl) EXCEPT
                !.result = Some(process_game_state(Get(tbl).plays))])
    /\ UNCHANGED <<play, play_data, pred, disk, writer, ready, calls, last,
                   enh, lab, wts, fetch, api>>

NextTable == ProcessGameState

SpecTable == InitTable /\ [][NextTable]_vars

(***************************************************************************)
(* Claims about feature extraction over a play list                        *)
(***************************************************************************)
Extracted == IsSome(tbl) /\ IsSome(Get(tbl).result)
TableInput == Get(tbl).plays
TableResult == Get(Get(tbl).result)

\* Every play of the list carries its required fields.
WellFormedInput == \A i \in 1..Len(TableInput) : IsSome(TableInput[i].outs)

\* The positions of the plays whose outcome is an action of the taxonomy,
\* in the order of the list.
KnownOutcomePlays ==
    SelectSeqBy([i \in 1..Len(TableInput) |-> i],
                {i \in 1..Len(TableInput) :
                    CandidatesOf(TableInput[i].event) /= <<>>})

\* C16: the table has one row for exactly those plays of the list whose
\* outcome is in the hitting/baserunning/fielding vocabulary, in the order
\* of the list; the other plays are left out without an error, and every
\* row carries a primary_tactic that the taxonomy maps to its result.
C16_KnownOutcomesOnly ==
    (Extracted /\ WellFormedInput) =>
        /\ TableResult.err = ""
        /\ IsSome(TableResult.table)
        /\ LET rows == Get(TableResult.table)
               kept == KnownOutcomePlays
           IN  /\ Len(rows) = Len(kept)
               /\ \A j \in 1..Len(kept) :
                    LET p == TableInput[kept[j]]
                    IN  /\ rows[j].row.result = p.event
                        /\ rows[j].row.inning = p.inning
                        /\ rows[j].row.outs = Get(p.outs)
                        /\ InSeq(rows[j].primary_tactic, CandidatesOf(p.event))

\* A home run, an unknown event and a triple: two rows, the home run
\* first.
C16_Witness ==
    /\ Extracted /\ WellFormedInput
    /\ Len(TableInput) = 3
    /\ TableInput[1].event = "Home Run"
    /\ TableInput[2].event = "Unknown Event"
    /\ TableInput[3].event = "Triple"
    /\ Len(Get(TableResult.table)) = 2
    /\ Get(TableResult.table)[1].primary_tactic = "power_hitting"
    /\ Get(TableResult.table)[2].row.result = "Triple"

\* C17: a play whose outs are negative or otherwise outside 0..3 is
\* reported to the caller as an error; no Situation Record with metrics
\* derived from the bad value is produced for it.
C17_BadOutsSurfaced ==
    (/\ Extracted
     /\ \E i \in 1..Len(TableInput) :
            /\ IsSome(TableInput[i].outs)
            /\ Get(TableInput[i].outs) \notin 0..3) =>
        /\ TableResult.err /= ""
        /\ TableResult.table = Nothing

(***************************************************************************)
(* Class weights (model_training.py 367-385)                               *)
(*                                                                         *)
(* The label series is given by class_dist: the number of samples of each  *)
(* distinct label.  A weight is an exact fraction.                         *)
(***************************************************************************)
RECURSIVE InsertAsc(_, _)
InsertAsc(s, c) ==
    IF s = <<>> THEN <<c>>
    ELSE IF s[1] <= c THEN <<s[1]>> \o InsertAsc(Tail(s), c)
    ELSE <<c>> \o s

RECURSIVE SortAsc(_)
SortAsc(s) == IF s = <<>> THEN <<>> ELSE InsertAsc(SortAsc(Tail(s)), s[1])

\* Twice class_dist.median(): the middle count, or the mean of the two
\* middle counts when their number is even.
TwiceMedian(class_dist) ==
    LET s == SortAsc(class_dist)
        k == Len(s)
    IN  IF k % 2 = 1 THEN 2 * s[(k + 1) \div 2]
        ELSE s[k \div 2] + s[k \div 2 + 1]

\* Mutant of calculate_custom_weights: a class at exactly 20% of the
\* median is boosted too (<= for <).
calculate_custom_weights_inclusive(class_dist) ==
    LET n_samples == SeqSum(class_dist)
        n_classes == Len(class_dist)
    IN  [i \in 1..n_classes |->
            IF 10 * class_dist[i] <= TwiceMedian(class_dist)
                THEN Rat(3 * n_samples, 2 * n_classes * class_dist[i])
                ELSE Rat(n_samples, n_classes * class_dist[i])]

\* _calculate_custom_weights(y): the weight of each class, in the order of
\* class_dist.  count < median_count * 0.2 is 10 count < 2 median.
calculate_custom_weights(class_dist) ==
    LET n_samples == SeqSum(class_dist)
        n_classes == Len(class_dist)
    IN  [i \in 1..n_classes |->
            IF 10 * class_dist[i] < TwiceMedian(class_dist)
                THEN Rat(3 * n_samples, 2 * n_classes * class_dist[i])
                ELSE Rat(n_samples, n_classes * class_dist[i])]

(***************************************************************************)
(* SpecWeights: Init draws the class counts of a label series,             *)
(* CalculateCustomWeights computes the weights.                            *)
(***************************************************************************)
MaxClasses == 3

ClassCounts == {1, 2, 3, 10, 15, 20}

ClassDists == UNION {[1..k -> ClassCounts] : k \in 0..MaxClasses}

InitWeights ==
    /\ FeaturesIdle
    /\ PredictorIdle
    /\ FetcherIdle /\ ApiIdle
    /\ EnhancerIdle
    /\ LabelerIdle /\ TableIdle
    /\ wts \in {Some([class_dist |-> d, weights |-> Nothing]) : d \in ClassDists}

CalculateCustomWeights ==
    /\ IsSome(wts)
    /\ ~ IsSome(Get(wts).weights)
    /\ wts' = Some([Get(wts) EXCEPT
                !.weights = Some(calculate_custom_weights(Get(wts).class_dist))])
    /\ UNCHANGED <<play, play_data, pred, disk, writer, ready, calls, last,
                   enh, lab, tbl, fetch, api>>

NextWeights == CalculateCustomWeights

SpecWeights == InitWeights /\ [][NextWeights]_vars

(***************************************************************************)
(* Claims about the class weights                                          *)
(***************************************************************************)
Weighted == IsSome(wts) /\ IsSome(Get(wts).weights)
ClassDist == Get(wts).class_dist
Weights == Get(Get(wts).weights)

\* The j-th smallest of the class counts.
CountAtRank(j) ==
    CHOOSE v \in Range(ClassDist) :
        /\ Cardinality({i \in 1..Len(ClassDist) : ClassDist[i] < v}) < j
        /\ j <= Cardinality({i \in 1..Len(ClassDist) : ClassDist[i] <= v})

\* Twice the median of the class counts.
TwiceMedianCount ==
    LET k == Len(ClassDist)
    IN  CountAtRank((k + 1) \div 2) + CountAtRank(k \div 2 + 1)

\* C19: with n samples and k distinct classes the weight of a class with
\* count c is n / (k x c), times 1.5 exactly when c is strictly below 20%
\* of the median class count, and times 1 otherwise.
C19_ClassWeights ==
    Weighted =>
        LET k == Len(ClassDist)
            n == SeqSum(ClassDist)
        IN  /\ Len(Weights) = k
            /\ \A i \in 1..k :
                LET c == ClassDist[i]
                    w == Weights[i]
                IN  IF 5 * 2 * c < TwiceMedianCount
                        THEN 2 * w.num * k * c = 3 * n * w.den
                        ELSE w.num * k * c = n * w.den

\* Classes of 1, 10 and 10 samples (median 10): the class of 1 sample gets
\* 21/3 x 1.5, the others 21/30.
C19_Witness ==
    /\ Weighted
    /\ ClassDist = <<1, 10, 10>>
    /\ Weights[1] = Rat(21 * 3, 3 * 2)
    /\ Weights[2] = Rat(21, 30)

(***************************************************************************)
(* Situation analysis (model_training.py 220-343)                          *)
(***************************************************************************)
\* _analyze_context: built from the first row of game_state.  The
\* pressure_index is round(float(...), 2) of the double in the cell by
\* Python's round, which rounds the value of the double itself (hundredths
\* here).
analyze_context(game_state) ==
    LET row == game_state.rows[1]
    IN  [game_situation |->
            [inning |-> row["inning"], outs |-> row["outs"],
             score_diff |-> row["score_diff"],
             pressure_index |-> PyRound2(row["pressure_index"])],
         runner_situation |->
            [runners |-> IF InSeq("num_runners", game_state.cols)
                            THEN row["num_runners"] ELSE 0,
             scoring_position |->
                IF InSeq("scoring_position", game_state.cols)
                    THEN row["scoring_position"] /= 0 ELSE FALSE]]

\* the columns _analyze_context indexes without a test
ContextColumns == <<"inning", "outs", "score_diff", "pressure_index">>

\* _get_recommendation_reasoning: the reasons in the order they are
\* appended (the code joins them with " | ").
get_recommendation_reasoning(tactic, context) ==
    LET game_situation == context.game_situation
        runner_situation == context.runner_situation
        category == TacticsToCategory(tactic)
    IN  (IF game_situation.inning >= 7 THEN <<"Late game situation">> ELSE <<>>)
        \o (IF game_situation.pressure_index > 150
                THEN <<"High pressure situation">> ELSE <<>>)
        \o (IF runner_situation.scoring_position
                THEN <<"Runners in scoring position">> ELSE <<>>)
        \o (IF Abs(game_situation.score_diff) <= 2 THEN <<"Close game">>
            ELSE IF game_situation.score_diff > 0
                THEN <<"Leading by multiple runs">>
            ELSE <<"Trailing by multiple runs">>)
        \o (IF category = Some("OFFENSIVE") /\ runner_situation.scoring_position
                THEN <<"Good opportunity for run scoring">>
            ELSE IF category = Some("DEFENSIVE")
                        /\ game_situation.pressure_index > 150
                THEN <<"Critical defensive situation">>
            ELSE <<>>)

\* _get_specific_actions: `return tactics[tactic]` hands back the tactic's
\* whole entry of TACTICAL_CATEGORIES, the dict with the keys 'actions' and
\* 'contexts'; a tactic of no category gets the empty list.  `shared` tells
\* whether the object returned is the taxonomy's own (no copy is made): a
\* write through it is a write to TACTICAL_CATEGORIES, and to the contexts
\* ACTION_TO_TACTIC refers to.
get_specific_actions(tactic) ==
    IF IsSome(TacticsToCategory(tactic))
        THEN [kind |-> "dict", keys |-> <<"actions", "contexts">>,
              actions |-> TacticData[tactic].actions,
              contexts |-> TacticData[tactic].contexts,
              shared |-> TRUE]
        ELSE [kind |-> "list", keys |-> <<>>, actions |-> <<>>,
              contexts |-> <<>>, shared |-> FALSE]

\* top_tactics: all entries of the categories, sorted by descending
\* probability, the first 3.
TopTactics(tactical_probs) ==
    LET all_probs ==
            tactical_probs["OFFENSIVE"] \o tactical_probs["BASERUNNING"]
                \o tactical_probs["DEFENSIVE"]
        sorted == SortDesc(all_probs)
    IN  SubSeq(sorted, 1, Min(3, Len(sorted)))

NoAnalysis ==
    [tactical_probabilities |-> NoResult, top_tactics |-> <<>>,
     context_analysis |-> Nothing, recommendations |-> <<>>]

\* analyze_situation(game_state) on predictor state p: the exception it
\* re-raises ("" for none) and the dict it returns.
analyze_situation(p, game_state) ==
    LET o == predict_proba(p, game_state)
    IN  IF o.err /= "" THEN [err |-> o.err, result |-> NoAnalysis]
        ELSE IF \E c \in Range(ContextColumns) : ~ InSeq(c, game_state.cols)
            THEN [err |-> "KeyError", result |-> NoAnalysis]
        ELSE
        LET context == analyze_context(game_state)
            top_tactics == TopTactics(o.result)
        IN  [err |-> "",
             result |->
                [tactical_probabilities |-> o.result,
                 top_tactics |-> top_tactics,
                 context_analysis |-> Some(context),
                 recommendations |->
                    [i \in 1..Len(top_tactics) |->
                        [tactic |-> top_tactics[i].tactic,
                         probability |-> top_tactics[i].prob,
                         reasoning |->
                            get_recommendation_reasoning(top_tactics[i].tactic,
                                                         context),
                         specific_actions |->
                            get_specific_actions(top_tactics[i].tactic)]]]]

(***************************************************************************)
(* SpecAdvisor: a predictor is trained and asked for situation analyses.   *)
(***************************************************************************)
RowC == [inning |-> 9, outs |-> 2, batter_ops |-> 900, half_inning |-> "top",
         result |-> "Home Run", primary_tactic |-> "power_hitting",
         batter_id |-> 5, prob_contact_hitting |-> 0]
RowD == [inning |-> 4, outs |-> 1, batter_ops |-> 0, half_inning |-> "bottom",
         result |-> "Single", primary_tactic |-> "defensive_outs",
         batter_id |-> 6, prob_contact_hitting |-> 0]

AdvisorDatasets ==
    {[cols |-> <<"inning", "outs", "half_inning", "result", "batter_id",
                 "primary_tactic", "prob_contact_hitting">>,
      rows |-> Restrict(<<"inning", "outs", "half_inning", "result",
                          "batter_id", "primary_tactic",
                          "prob_contact_hitting">>, rs),
      copies |-> n] :
        rs \in {<<RowA, RowB>>, <<RowA, RowB, RowC, RowD>>, <<RowO>>},
        n \in SampleCopies \cup {6}}

SituationRows ==
    {[inning |-> 8, outs |-> 1, score_diff |-> 1,
      pressure_index |-> FloatRatio(1950, 1000),
      num_runners |-> 1, scoring_position |-> 1],
     [inning |-> 1, outs |-> 0, score_diff |-> -3,
      pressure_index |-> PressureFloat(1, 0, 0),
      num_runners |-> 0, scoring_position |-> 0],
     [inning |-> 7, outs |-> 2, score_diff |-> 4,
      pressure_index |-> PressureFloat(7, 2, 0),
      num_runners |-> 0, scoring_position |-> 0]}

SituationColumnLists ==
    {<<"inning", "outs", "score_diff", "pressure_index", "num_runners",
       "scoring_position">>,
     <<"inning", "outs", "score_diff", "pressure_index">>,
     <<"inning", "outs">>}

SituationTables ==
    {[cols |-> c, rows |-> Restrict(c, <<r>>)] :
        c \in SituationColumnLists, r \in SituationRows}

AnalyzeSituation(w, t) ==
    LET o == analyze_situation(pred[w], t)
    IN  /\ last' = Call("analyze_situation", w, o.err, Nothing, Some(t),
                        Some(o.result))
        /\ UNCHANGED <<play, play_data, pred, disk, writer, ready, calls, enh,
                       lab, tbl, wts, fetch, api>>

NextAdvisor ==
    \/ \E w \in Trainers, d \in AdvisorDatasets, optimize \in BOOLEAN :
            Train(w, d, optimize)
    \/ \E w \in Trainers, t \in SituationTables : AnalyzeSituation(w, t)

SpecAdvisor == InitPredictor /\ [][NextAdvisor]_vars

(***************************************************************************)
(* Claims about the situation analysis                                     *)
(***************************************************************************)
Analyzed == last.op = "analyze_situation" /\ last.err = ""

\* C20: every recommendation analyze_situation returns carries, as its
\* associated actions, the list of outcome actions the taxonomy defines for
\* the recommendation's tactic, and nothing else.
C20_RecommendationActions ==
    Analyzed =>
        LET recs == Get(last.output).recommendations
        IN  \A i \in 1..Len(recs) :
                /\ recs[i].specific_actions.kind = "list"
                /\ recs[i].specific_actions.actions
                        = TacticData[recs[i].tactic].actions
                /\ recs[i].specific_actions.contexts = <<>>

(***************************************************************************)
(* Claims about what the enhancement step does to its argument             *)
(***************************************************************************)
\* C26: after _enhance_predictions has returned, the classifier result that
\* was passed in holds, in every per-category mapping, the values it held
\* before the call.
C26_InputUntouched ==
    Enhanced =>
        Get(enh).predictions.tactical_probabilities
            = Get(enh).base.tactical_probabilities

(***************************************************************************)
(* Claims about the labeler's floor                                        *)
(***************************************************************************)
\* C29: for a record whose result is a mapped action the returned mapping
\* holds every candidate tactic of the action, each with a score of at
\* least 0.4, so that no candidate falls under the floor of 0.05 and the
\* mapping is not the fallback {'contact_hitting': 100.0}.
C29_NoCandidateDiscarded ==
    (Labelled /\ CandidatesOf(LabelInput.result) /= <<>>) =>
        LET cands == CandidatesOf(LabelInput.result)
            probs == LabelOutput.probabilities
        IN  /\ {probs[i].tactic : i \in 1..Len(probs)} = Range(cands)
            /\ Len(probs) = Len(cands)
            /\ \A i \in 1..Len(probs) :
                /\ 10 * probs[i].prob >= 4 * ProbUnit
                /\ 20 * probs[i].prob >= ProbUnit
                /\ probs[i].prob /= 100 * ProbUnit

\* An action with two or more candidates, none of which has a context
\* clause met or a multiplier applied: all stay at the base score of 0.4.
C29_Witness ==
    /\ Labelled
    /\ Len(CandidatesOf(LabelInput.result)) >= 2
    /\ \A i \in 1..Len(LabelOutput.probabilities) :
            10 * LabelOutput.probabilities[i].prob = 4 * ProbUnit

(***************************************************************************)
(* Claims about the schema train stores                                    *)
(***************************************************************************)
\* C25: the feature names a successful train(dataset) leaves in a predictor
\* are those the same call leaves in a predictor fresh from construction,
\* whatever the predictor was trained on or loaded with before.
C25_SchemaFromDatasetOnly ==
    [][\A w \in Predictors, d \in Datasets, optimize \in BOOLEAN :
            (Train(w, d, optimize) /\ last'.err = "") =>
                \A y_train \in SplitOutcomes(d) :
                    pred'[w].feature_names
                        = train(NewPredictor, d, optimize,
                                y_train).pred.feature_names]_vars

(***************************************************************************)
(* Player statistics (stats_fetcher.py)                                    *)
(*                                                                         *)
(* A fetcher is [season_year, stats_cache]; the cache is the set of its    *)
(* entries [key, clean, convertible], key being                            *)
(* <<player_id, season, group, game_type>>, clean telling whether the      *)
(* cached statistics are free of the placeholder values ('-.--' and the    *)
(* like) and convertible whether _safe_convert_stat and _safe_convert_int  *)
(* return on every value of them.  What the remote API answers to one      *)
(* request is "stats" (statistics without placeholders, of numbers that    *)
(* convert), "unconvertible" (statistics without placeholders holding a    *)
(* number on which float() or int() raise OverflowError, as 1e999 or an    *)
(* integer of 400 digits), "placeholder" (statistics holding a             *)
(* placeholder), "empty" (no statistics) or "error" (the request fails).   *)
(***************************************************************************)
\* PlayerStatsFetcher.__init__
NewFetcher == [season_year |-> 2024, stats_cache |-> {}]

\* set_season
set_season(f, year) ==
    IF year /= f.season_year
        THEN [f EXCEPT !.season_year = year, !.stats_cache = {}]
        ELSE f

\* the statistics a cache entry holds
CachedStats(e) == [clean |-> e.clean, convertible |-> e.convertible]

\* the statistics of an answer of the API that holds some
AnsweredStats(response) ==
    [clean |-> response /= "placeholder",
     convertible |-> response /= "unconvertible"]

\* _try_get_stats: the cache afterwards and the statistics returned, as
\* Some([clean, convertible]) or Nothing for None.
try_get_stats(cache, key, response) ==
    IF \E e \in cache : e.key = key
        THEN [cache |-> cache,
              stats |-> Some(CachedStats(CHOOSE e \in cache : e.key = key))]
    ELSE IF response \in {"stats", "unconvertible", "placeholder"}
        THEN [cache |-> cache \cup
                    {[key |-> key, clean |-> AnsweredStats(response).clean,
                      convertible |-> AnsweredStats(response).convertible]},
              stats |-> Some(AnsweredStats(response))]
    ELSE [cache |-> cache, stats |-> Nothing]

\* one attempt of _try_get_stats_with_retry and what follows it
RECURSIVE try_get_stats_with_retry(_, _, _)
Attempted(a, key, responses) ==
    IF IsSome(a.stats) /\ Get(a.stats).clean
        THEN [cache |-> a.cache, found |-> TRUE,
              convertible |-> Get(a.stats).convertible]
        ELSE try_get_stats_with_retry(a.cache, key, Tail(responses))

\* _try_get_stats_with_retry: one attempt per element of responses; the
\* cache afterwards, whether statistics were returned and whether they
\* convert.
try_get_stats_with_retry(cache, key, responses) ==
    IF responses = <<>>
        THEN [cache |-> cache, found |-> FALSE, convertible |-> FALSE]
    ELSE Attempted(try_get_stats(cache, key, responses[1]), key, responses)

\* The lookup strategies of get_batter_stats and get_pitcher_stats, in
\* the order of the code, as [season, game_type].
Strategies(season_year) ==
    <<[season |-> season_year, game_type |-> "R"],
      [season |-> season_year - 1, game_type |-> "R"],
      [season |-> season_year - 1, game_type |-> "ANY"]>>

\* DEFAULT_BATTER_STATS, DEFAULT_PITCHER_STATS
DefaultStats(group) ==
    [default |-> TRUE, group |-> group, season |-> 0, game_type |-> ""]

\* The record built from the statistics strategy st yielded: the
\* conversions are inside `try`, and `except Exception` returns the
\* default record when one of them raises.
ConvertedStats(group, st, convertible) ==
    IF convertible
        THEN [default |-> FALSE, group |-> group, season |-> st.season,
              game_type |-> st.game_type]
        ELSE DefaultStats(group)

RECURSIVE TryFrom(_, _, _, _, _, _)
\* What strategy i found, and the strategies after it when it found
\* nothing.
Tried(i, f, st, r, player_id, group, remote) ==
    IF r.found
        THEN [consulted |-> <<st>>, cache |-> r.cache,
              result |-> ConvertedStats(group, st, r.convertible)]
    ELSE IF i = 3
        THEN [consulted |-> <<st>>, cache |-> r.cache,
              result |-> DefaultStats(group)]
    ELSE [consulted |->
            <<st>> \o TryFrom(i + 1, f, r.cache, player_id, group,
                              remote).consulted,
          cache |-> TryFrom(i + 1, f, r.cache, player_id, group, remote).cache,
          result |-> TryFrom(i + 1, f, r.cache, player_id, group,
                             remote).result]

\* The chain of `if not stats_data:` from strategy i on: the strategies
\* consulted, the cache left and the record returned, which is the default
\* record or the statistics of the strategy that yielded them.
TryFrom(i, f, cache, player_id, group, remote) ==
    Tried(i, f, Strategies(f.season_year)[i],
          try_get_stats_with_retry(cache,
                <<player_id, Strategies(f.season_year)[i].season, group,
                  Strategies(f.season_year)[i].game_type>>, remote[i]),
          player_id, group, remote)

\* Mutant of get_stats: the lookup of the current season is left out and
\* the chain starts at the previous season.
get_stats_previous_season_first(f, player_id, group, remote) ==
    TryFrom(2, f, f.stats_cache, player_id, group, remote)

\* get_batter_stats (group 'hitting') and get_pitcher_stats (group
\* 'pitching'); remote[i] are the answers of the API to the attempts of
\* strategy i.
get_stats(f, player_id, group, remote) ==
    TryFrom(1, f, f.stats_cache, player_id, group, remote)

(***************************************************************************)
(* SpecFetcher: one fetcher, its season set and statistics looked up.      *)
(***************************************************************************)
MaxLookups == 2

\* What the API answers to the (up to) three attempts of one strategy.
ResponsePlans ==
    {<<"stats", "stats", "stats">>, <<"empty", "error", "empty">>,
     <<"error", "empty", "stats">>, <<"placeholder", "stats", "stats">>,
     <<"empty", "unconvertible", "stats">>}

InitFetcher ==
    /\ FeaturesIdle
    /\ PredictorIdle
    /\ EnhancerIdle
    /\ LabelerIdle /\ TableIdle /\ WeightsIdle
    /\ ApiIdle
    /\ fetch = [fetcher |-> NewFetcher, lookups |-> 0, lookup |-> Nothing]

SetSeason(year) ==
    /\ fetch' = [fetch EXCEPT !.fetcher = set_season(fetch.fetcher, year),
                              !.lookup = Nothing]
    /\ UNCHANGED <<play, play_data, pred, disk, writer, ready, calls, last,
                   enh, lab, tbl, wts, api>>

GetStats(player_id, group, remote) ==
    LET o == get_stats(fetch.fetcher, player_id, group, remote)
    IN  /\ fetch.lookups < MaxLookups
        /\ fetch' = [fetcher |-> [fetch.fetcher EXCEPT !.stats_cache = o.cache],
                     lookups |-> fetch.lookups + 1,
                     lookup |-> Some([group |-> group, remote |-> remote,
                                      before |-> fetch.fetcher,
                                      consulted |-> o.consulted,
                                      result |-> o.result])]
        /\ UNCHANGED <<play, play_data, pred, disk, writer, ready, calls, last,
                       enh, lab, tbl, wts, api>>

NextFetcher ==
    \/ \E year \in {2023, 2024} : SetSeason(year)
    \/ \E group \in {"hitting", "pitching"},
          remote \in [1..3 -> ResponsePlans] : GetStats(7, group, remote)

SpecFetcher == InitFetcher /\ [][NextFetcher]_vars

(***************************************************************************)
(* Claims about the statistics lookup                                      *)
(***************************************************************************)
LookedUp == fetch /= Nothing /\ IsSome(fetch.lookup)

\* The statistics strategy i of the last lookup yields, as the set of
\* their descriptions [convertible]: those cached under its key when they
\* are clean, or, the key not being cached, those of the first attempt
\* that is answered with clean statistics before one is answered with
\* placeholders (which the cache then keeps).  The set is empty when the
\* strategy yields nothing.
Yielded(i) ==
    LET l == Get(fetch.lookup)
        st == Strategies(l.before.season_year)[i]
        key == <<7, st.season, l.group, st.game_type>>
        plan == l.remote[i]
        cached == {e \in l.before.stats_cache : e.key = key}
    IN  IF cached /= {}
            THEN {[convertible |-> e.convertible] : e \in {c \in cached : c.clean}}
        ELSE {[convertible |-> plan[a] = "stats"] :
                a \in {c \in 1..3 :
                        /\ plan[c] \in {"stats", "unconvertible"}
                        /\ \A b \in 1..(c - 1) : plan[b] \in {"empty", "error"}}}

Yields(i) == Yielded(i) /= {}

\* C24: a lookup consults (current season, regular), (previous season,
\* regular), (previous season, any game type) in this order, stops at the
\* first that yields statistics, never consults a later one, and returns
\* the default record when none of the three yields any; what it returns
\* otherwise is built from the statistics of the strategy it stopped at,
\* or is the default record when these do not convert to numbers.
C24_StrategyOrder ==
    LookedUp =>
        LET l == Get(fetch.lookup)
            all == Strategies(l.before.season_year)
            n == Len(l.consulted)
        IN  /\ n \in 1..3
            /\ l.consulted = SubSeq(all, 1, n)
            /\ all = <<[season |-> l.before.season_year, game_type |-> "R"],
                       [season |-> l.before.season_year - 1, game_type |-> "R"],
                       [season |-> l.before.season_year - 1,
                        game_type |-> "ANY"]>>
            /\ \A i \in 1..(n - 1) : ~ Yields(i)
            /\ (n < 3 => Yields(n))
            /\ (~ Yields(n) => l.result.default)
            /\ IF Yielded(n) = {[convertible |-> TRUE]}
                THEN /\ ~ l.result.default
                     /\ l.result.season = all[n].season
                     /\ l.result.game_type = all[n].game_type
                ELSE l.result.default

\* The current season has only placeholder statistics and the previous
\* season answers on a later attempt: the second strategy is the last one
\* consulted and the record returned comes from it.
C24_Witness ==
    /\ LookedUp
    /\ Get(fetch.lookup).before.season_year = 2023
    /\ Get(fetch.lookup).remote[1][1] = "placeholder"
    /\ Len(Get(fetch.lookup).consulted) = 2
    /\ ~ Get(fetch.lookup).result.default
    /\ Get(fetch.lookup).result.season = 2022

(***************************************************************************)
(* The /predict endpoint (api.py 61-63, 102-158)                           *)
(*                                                                         *)
(* stats_fetcher is created once at module level and shared by all         *)
(* requests.  predict_game is a coroutine (`async def`) whose body holds   *)
(* no await: the event loop of the process runs it from its first          *)
(* statement to its return before it runs another handler.  Each handler   *)
(* creates an MLBTacticalAnalyzer, whose __init__ tries to create a        *)
(* GeminiTacticalAnalyzer; that one creates a PlayerStatsFetcher of its    *)
(* own (gemini_analysis.py 17), on which set_season is never called.  A    *)
(* request is [pc, season, left, gemini]: where its handler stands, the    *)
(* season of its game (int(game_date.split('-')[0])), the plays it has     *)
(* still to process and whether its analyzer has a Gemini analyzer (it has *)
(* none when the constructor raised, predictor.py 26-28); api.loop is the  *)
(* request whose handler the loop is running.  api.log holds one entry     *)
(* [req, fetcher, season_year, first] per pair of lookups: the request,    *)
(* the fetcher asked ("shared" or "gemini"), the season it held and the    *)
(* season of the first strategy consulted.                                 *)
(***************************************************************************)
MaxGamePlays == 2

Requests == {"a", "b"}

\* Whether the event loop may run the next step of the handler of r: a
\* handler starts when the loop is free and then keeps the loop.
Runnable(r) ==
    IF api.req[r].pc = "waiting" THEN api.loop = Nothing
    ELSE api.loop = Some(r)

\* What the API answers to the attempts of each strategy of one lookup.
ApiRemotes ==
    {[i \in 1..3 |-> <<"stats", "stats", "stats">>],
     [i \in 1..3 |-> <<"empty", "error", "empty">>]}

InitApi ==
    /\ FeaturesIdle
    /\ PredictorIdle
    /\ EnhancerIdle
    /\ LabelerIdle /\ TableIdle /\ WeightsIdle
    /\ fetch = [fetcher |-> NewFetcher, lookups |-> 0, lookup |-> Nothing]
    /\ api = [loop |-> Nothing,
              req |-> [r \in Requests |->
                        [pc |-> "waiting", season |-> 0, left |-> 0,
                         gemini |-> FALSE]],
              log |-> {}]

ApiFrame ==
    UNCHANGED <<play, play_data, pred, disk, writer, ready, calls, last, enh,
                lab, tbl, wts>>

\* api.py 105-127: the handler starts, fetches the game and finds plays.
BeginRequest(r, season, plays) ==
    /\ api.req[r].pc = "waiting"
    /\ Runnable(r)
    /\ api' = [api EXCEPT !.loop = Some(r),
                          !.req[r] = [pc |-> "fetched", season |-> season,
                                      left |-> plays, gemini |-> FALSE]]
    /\ UNCHANGED fetch
    /\ ApiFrame

\* api.py 130-134: stats_fetcher.set_season(game_season)
ApiSetSeason(r) ==
    /\ api.req[r].pc = "fetched"
    /\ Runnable(r)
    /\ fetch' = [fetch EXCEPT !.fetcher = set_season(fetch.fetcher, api.req[r].season)]
    /\ api' = [api EXCEPT !.req[r].pc = "season_set"]
    /\ ApiFrame

\* api.py 140, predictor.py 21-28: the analyzer is created, with a Gemini
\* analyzer unless its constructor raises.
CreateAnalyzer(r, gemini) ==
    /\ api.req[r].pc = "season_set"
    /\ Runnable(r)
    /\ api' = [api EXCEPT !.req[r].pc = "created", !.req[r].gemini = gemini]
    /\ UNCHANGED fetch
    /\ ApiFrame

\* predictor.py 57-60: analyze_live_game sets the season once more.
AnalyzerSetSeason(r) ==
    /\ api.req[r].pc = "created"
    /\ Runnable(r)
    /\ fetch' = [fetch EXCEPT !.fetcher = set_season(fetch.fetcher, api.req[r].season)]
    /\ api' = [api EXCEPT !.req[r].pc = "processing"]
    /\ ApiFrame

\* The two lookups of one play (process_data.py 37-38) or, after the last
\* play, of the current matchup (predictor.py 80-81), on the shared
\* fetcher: they are logged with the season the fetcher holds when they
\* are issued.
LookupStats(r, remote) ==
    LET b == get_stats(fetch.fetcher, 7, "hitting", remote)
        afterBatter == [fetch.fetcher EXCEPT !.stats_cache = b.cache]
        p == get_stats(afterBatter, 8, "pitching", remote)
    IN  /\ api.req[r].pc \in {"processing", "analyzed"}
        /\ Runnable(r)
        /\ fetch' = [fetch EXCEPT !.fetcher.stats_cache = p.cache]
        /\ api' = [api EXCEPT
                    !.log = @ \cup {[req |-> r, fetcher |-> "shared",
                                     season_year |-> fetch.fetcher.season_year,
                                     first |-> b.consulted[1].season]},
                    !.req[r] =
                        IF @.pc = "analyzed"
                            THEN [@ EXCEPT !.pc = IF api.req[r].gemini
                                                    THEN "looked_up"
                                                    ELSE "built"]
                        ELSE IF @.left > 1 THEN [@ EXCEPT !.left = @ - 1]
                        ELSE [@ EXCEPT !.pc = "analyzed", !.left = 0]]
        /\ ApiFrame

\* predictor.py 87-93, gemini_analysis.py 35-36: generate_tactical_analysis
\* looks the batter and the pitcher of the current matchup up on the
\* Gemini analyzer's own fetcher, which is as its constructor left it.
GeminiLookupStats(r, remote) ==
    LET b == get_stats(NewFetcher, 7, "hitting", remote)
    IN  /\ api.req[r].pc = "looked_up"
        /\ Runnable(r)
        /\ api' = [api EXCEPT
                    !.log = @ \cup {[req |-> r, fetcher |-> "gemini",
                                     season_year |-> NewFetcher.season_year,
                                     first |-> b.consulted[1].season]},
                    !.req[r].pc = "built"]
        /\ UNCHANGED fetch
        /\ ApiFrame

\* predictor.py 99-114, api.py 143-149: the analysis is built, saved and
\* returned, and the handler ends.
ReturnAnalysis(r) ==
    /\ api.req[r].pc = "built"
    /\ Runnable(r)
    /\ api' = [api EXCEPT !.loop = Nothing, !.req[r].pc = "done"]
    /\ UNCHANGED fetch
    /\ ApiFrame

NextApi ==
    \/ \E r \in Requests, season \in {2023, 2024}, plays \in 1..MaxGamePlays :
            BeginRequest(r, season, plays)
    \/ \E r \in Requests : ApiSetSeason(r)
    \/ \E r \in Requests, gemini \in BOOLEAN : CreateAnalyzer(r, gemini)
    \/ \E r \in Requests : AnalyzerSetSeason(r)
    \/ \E r \in Requests, remote \in ApiRemotes : LookupStats(r, remote)
    \/ \E r \in Requests, remote \in ApiRemotes : GeminiLookupStats(r, remote)
    \/ \E r \in Requests : ReturnAnalysis(r)

SpecApi == InitApi /\ [][NextApi]_vars

(***************************************************************************)
(* Claims about concurrent requests                                        *)
(***************************************************************************)
\* C30: with two /predict requests for games of different seasons in one
\* process, every statistics lookup made while a game is processed is
\* issued by a fetcher that holds that game's season: its first strategy
\* asks for the game's own season.
C30_LookupsUseOwnSeason ==
    api /= Nothing =>
        \A e \in api.log :
            /\ e.season_year = api.req[e.req].season
            /\ e.first = api.req[e.req].season

(***************************************************************************)
(* Claims about the taxonomy                                               *)
(***************************************************************************)
\* C23: no operation hands its caller a mutable reference into the
\* taxonomy: nothing analyze_situation returns is an object of
\* TACTICAL_CATEGORIES itself.  (No statement of the program writes to the
\* taxonomy; it is only through such a reference that its content can
\* come to differ from the content at initialization.)
C23_TaxonomySealed ==
    Analyzed =>
        \A i \in 1..Len(Get(last.output).recommendations) :
            ~ Get(last.output).recommendations[i].specific_actions.shared

(***************************************************************************)
(* The inference path (predictor.py 53-181)                                *)
(*                                                                         *)
(* game_df is the table process_game_state returned for the game.  A       *)
(* result is the dict handed back: momentum_analysis and                   *)
(* historical_patterns are Nothing for None and Some(value) otherwise.     *)
(***************************************************************************)
\* What analyze_live_game does with the outcome `o` of analyze_situation
\* (lines 65-120): the exception raised ("" for none) and the dict returned.
\* `saved` is what save_to_json returns.
live_result(o, saved) ==
    IF o.err /= "" THEN [err |-> o.err, result |-> Nothing]
    ELSE IF ~ saved THEN [err |-> "Exception", result |-> Nothing]
    ELSE [err |-> "",
          result |->
            Some([tactical_probabilities |-> o.result.tactical_probabilities,
                  top_tactics |-> o.result.top_tactics,
                  context_analysis |-> o.result.context_analysis,
                  recommendations |-> o.result.recommendations,
                  momentum_analysis |-> Nothing,
                  historical_patterns |-> Nothing])]

\* analyze_live_game without a stats fetcher and without a Gemini
\* analyzer, from the processed game table onward.
analyze_live_game(p, game_df, saved) ==
    live_result(analyze_situation(p, game_df), saved)

\* _build_predictions without a Gemini analyzer: the dict built from the
\* output of analyze_situation and passed through _enhance_predictions,
\* whose shallow copy keeps the top_tactics, context_analysis and
\* recommendations objects of the argument.
build_predictions(predictions, historical_data, game_df) ==
    LET e == enhance_predictions(predictions, historical_data, game_df.rows)
    IN  [tactical_probabilities |-> e.tactical_probabilities,
         top_tactics |-> predictions.top_tactics,
         context_analysis |-> predictions.context_analysis,
         recommendations |-> predictions.recommendations,
         momentum_analysis |-> Some(e.momentum_analysis),
         historical_patterns |-> Some(e.historical_patterns)]

(***************************************************************************)
(* SpecLive: a predictor is trained; games are analysed by                 *)
(* analyze_live_game, and analyses are enhanced by _build_predictions, by  *)
(* an analyzer with or without a historical corpus.                        *)
(***************************************************************************)
RowZ == [inning |-> 2, outs |-> 0, batter_ops |-> 0, half_inning |-> "top",
         result |-> "Single", primary_tactic |-> "zone_defense",
         batter_id |-> 4, prob_contact_hitting |-> 0]

LiveDatasets ==
    {d \in AdvisorDatasets : Len(d.rows) > 1 /\ d.copies = 10}
        \cup {[d EXCEPT !.rows = Restrict(d.cols, <<RowB, RowZ>>)] :
                d \in {d \in AdvisorDatasets : Len(d.rows) = 2 /\ d.copies = 10}}

LiveRows ==
    <<[inning |-> 8, outs |-> 1, score_diff |-> 1,
       pressure_index |-> FloatRatio(1950, 1000),
       hit |-> 1, walk |-> 0, run_scored |-> 1, strikeout |-> 0, out |-> 0,
       double_play |-> 0],
      [inning |-> 7, outs |-> 1, score_diff |-> -3,
       pressure_index |-> FloatRatio(1500, 1000),
       hit |-> 0, walk |-> 0, run_scored |-> 0, strikeout |-> 1, out |-> 1,
       double_play |-> 0]>>

LiveTables ==
    {[cols |-> c, rows |-> Restrict(c, rs)] :
        c \in {ContextColumns,
               ContextColumns \o SuccessIndicators("batting")
                    \o SuccessIndicators("pitching")},
        rs \in {<<LiveRows[1]>>, <<LiveRows[1], LiveRows[2]>>,
                <<LiveRows[2], LiveRows[1]>>}}

LiveHistories ==
    {Nothing,
     Some(<<HistRow(FloatRatio(1500, 1000), "power_hitting", TRUE),
            HistRow(FloatRatio(1500, 1000), "patient_hitting", TRUE),
            HistRow(FloatRatio(1500, 1000), "patient_hitting", FALSE)>>)}

LiveCall(w, game_df, o) ==
    Call("analyze_live_game", w, o.err, Nothing,
         Some([game_df |-> game_df, historical_data |-> Nothing]), o.result)

AnalyzeLiveGame(w, t, saved) ==
    /\ last' = LiveCall(w, t, analyze_live_game(pred[w], t, saved))
    /\ UNCHANGED <<play, play_data, pred, disk, writer, ready, calls, enh,
                   lab, tbl, wts, fetch, api>>

BuildCall(w, game_df, h, predictions) ==
    Call("build_predictions", w, "", Some(predictions),
         Some([game_df |-> game_df, historical_data |-> h]),
         Some(build_predictions(predictions, h, game_df)))

\* _build_predictions applied to the output of a successful
\* analyze_situation on the same game table.
BuildPredictions(w, t, h) ==
    /\ analyze_situation(pred[w], t).err = ""
    /\ last' = BuildCall(w, t, h, analyze_situation(pred[w], t).result)
    /\ UNCHANGED <<play, play_data, pred, disk, writer, ready, calls, enh,
                   lab, tbl, wts, fetch, api>>

NextLive ==
    \/ \E w \in Trainers, d \in LiveDatasets : Train(w, d, FALSE)
    \/ \E w \in Trainers, t \in LiveTables : PredictProba(w, t)
    \/ \E w \in Trainers, t \in LiveTables, saved \in BOOLEAN :
            AnalyzeLiveGame(w, t, saved)
    \/ \E w \in Trainers, t \in LiveTables, h \in LiveHistories :
            BuildPredictions(w, t, h)

SpecLive == InitPredictor /\ [][NextLive]_vars

(***************************************************************************)
(* Claims about the inference path                                         *)
(***************************************************************************)
LiveResult == last.op = "analyze_live_game" /\ last.err = ""
Built == last.op = "build_predictions"

\* C21: every result analyze_live_game returns went through the
\* enhancement step: it carries the momentum analysis and the historical
\* patterns computed for the game, and its tactical_probabilities are the
\* classifier's after the momentum/historical adjustment.
C21_EnhancementAlwaysRuns ==
    LiveResult =>
        LET o == Get(last.output)
            game_df == Get(last.input).game_df
            raw == predict_proba(pred[last.who], game_df).result
            momentum == analyze_momentum(game_df.rows)
            historical ==
                analyze_historical_patterns(Get(last.input).historical_data,
                                            game_df.rows)
        IN  /\ IsSome(o.momentum_analysis)
            /\ IsSome(o.historical_patterns)
            /\ Get(o.momentum_analysis) = momentum
            /\ Get(o.historical_patterns) = historical
            /\ o.tactical_probabilities
                    = adjust_probabilities(raw, historical, momentum)

\* The last call was predict_proba on a fitted model that gives a class
\* outside TACTICAL_CATEGORIES a probability of at least 5%.
ForeignClassPredicted ==
    /\ last.op = "predict_proba"
    /\ IsSome(pred[last.who].model)
    /\ IsSome(Get(last.output).handed)
    /\ LET m == Get(pred[last.who].model)
           features == Get(Get(last.output).handed)
       IN  /\ m.fitted
           /\ features.cols = m.cols
           /\ \E i \in 1..Len(m.classes) :
                /\ AtLeastFivePercent(
                        ClassifierProba(m, features.cols, features.rows[1])[i])
                /\ ~ IsSome(TacticsToCategory(m.classes[i]))

\* C28: predict_proba does not fail when the classifier gives a class
\* outside the taxonomy a probability of at least 5%: the call returns
\* normally and every such class is reported under some category.
C28_ForeignClassTolerated ==
    ForeignClassPredicted =>
        /\ last.err = ""
        /\ LET m == Get(pred[last.who].model)
               features == Get(Get(last.output).handed)
               result == Get(last.output).result
           IN  \A i \in 1..Len(m.classes) :
                    (/\ AtLeastFivePercent(
                            ClassifierProba(m, features.cols,
                                            features.rows[1])[i])
                     /\ ~ IsSome(TacticsToCategory(m.classes[i])))
                        => \E c \in DOMAIN result :
                             \E k \in 1..Len(result[c]) :
                                result[c][k].tactic = m.classes[i]

\* The probabilities the result `o` lists for `tactic` in its
\* tactical_probabilities (a tactic is listed at most once).
ListedProb(o, tactic) ==
    {e.prob : e \in {e \in UNION {Range(o.tactical_probabilities[c]) :
                                    c \in DOMAIN o.tactical_probabilities} :
                        e.tactic = tactic}}

\* C22: in the result of the enhancement step every top tactic and every
\* recommendation carries the probability its tactic has in the adjusted
\* tactical_probabilities, and top_tactics is in non-increasing order of
\* adjusted probability.
C22_RankedAgreeWithAdjusted ==
    Built =>
        LET o == Get(last.output)
        IN  /\ \A i \in 1..Len(o.top_tactics) :
                    ListedProb(o, o.top_tactics[i].tactic)
                        = {o.top_tactics[i].prob}
            /\ \A i \in 1..Len(o.recommendations) :
                    ListedProb(o, o.recommendations[i].tactic)
                        = {o.recommendations[i].probability}
            /\ \A i, j \in 1..Len(o.top_tactics) :
                    i < j =>
                        \A a \in ListedProb(o, o.top_tactics[i].tactic),
                           b \in ListedProb(o, o.top_tactics[j].tactic) :
                            a >= b

\* The play _analyze_momentum and _find_similar_situations take as the
\* current situation: the last row of the game table (iloc[-1]).
CurrentPlay(game_state) == game_state[Len(game_state)]

\* C27: for a game table with more than one play, the classifier
\* probabilities and the context summary analyze_situation reports are
\* those of the play that the momentum analysis and the historical
\* pattern matching treat as the current situation.
C27_SamePlayThroughout ==
    (Built /\ Len(Get(last.input).game_df.rows) > 1) =>
        LET game_df == Get(last.input).game_df
            current == [cols |-> game_df.cols,
                        rows |-> <<CurrentPlay(game_df.rows)>>]
            reported == Get(last.pre)
        IN  /\ reported.context_analysis = Some(analyze_context(current))
            /\ reported.tactical_probabilities
                    = predict_proba(pred[last.who], current).result

=============================================================================
